---- MODULE Spec2Model ----
(***************************************************************************)
(* Model of scripts/validate_marketplace.py: the five-layer marketplace    *)
(* validator, its result accumulator and its report.                       *)
(*                                                                         *)
(* Python strings are sequences of one-character strings, so that the      *)
(* regular expressions and len() are computed and not assumed.  JSON       *)
(* values are tagged records: [t |-> "str", v |-> <<"a">>], "num", "bool", *)
(* "null", "list" (v a sequence of values), "obj" (v a function from key   *)
(* to value; an absent key is outside its DOMAIN).                         *)
(***************************************************************************)
EXTENDS Integers, Sequences, FiniteSets, TLC

(***************************************************************************)
(* Characters and strings                                                  *)
(***************************************************************************)
Lower == {"a", "b", "c", "d", "e", "f", "g", "h", "i", "j", "k", "l", "m",
          "n", "o", "p", "q", "r", "s", "t", "u", "v", "w", "x", "y", "z"}
Upper == {"A", "B", "C", "D", "E", "F", "G", "H", "I", "J", "K", "L", "M",
          "N", "O", "P", "Q", "R", "S", "T", "U", "V", "W", "X", "Y", "Z"}
Digit == {"0", "1", "2", "3", "4", "5", "6", "7", "8", "9"}

\* The characters of the names the model sorts, in code-point order.
CodePoints == <<"-", ".", "/", "0", "1", "2", "A", "F", "a", "b", "f", "o",
                "q", "r", "s", "u", "x", "z">>
Ord(c) == CHOOSE i \in 1..Len(CodePoints) : CodePoints[i] = c

RECURSIVE StrLess(_, _)
\* str.__lt__: lexicographic order by code point.
StrLess(a, b) ==
    IF b = <<>> THEN FALSE
    ELSE IF a = <<>> THEN TRUE
    ELSE IF Head(a) = Head(b) THEN StrLess(Tail(a), Tail(b))
    ELSE Ord(Head(a)) < Ord(Head(b))

RECURSIVE Split(_, _)
\* str.split(sep) for a one-character separator.
Split(s, sep) ==
    IF \A i \in 1..Len(s) : s[i] # sep THEN <<s>>
    ELSE LET k == CHOOSE i \in 1..Len(s) :
                      s[i] = sep /\ \A j \in 1..(i - 1) : s[j] # sep
         IN  <<SubSeq(s, 1, k - 1)>> \o Split(SubSeq(s, k + 1, Len(s)), sep)

\* str.startswith(prefix)
StartsWith(s, prefix) ==
    Len(s) >= Len(prefix) /\ SubSeq(s, 1, Len(prefix)) = prefix

\* "sub in s" for strings
Contains(s, sub) ==
    \E i \in 1..(Len(s) - Len(sub) + 1) : SubSeq(s, i, i + Len(sub) - 1) = sub

Repeat(c, n) == [i \in 1..n |-> c]

(***************************************************************************)
(* Regular expressions                                                     *)
(***************************************************************************)
\* KEBAB_RE.match(s) for a str s: ^[a-z][a-z0-9]*(-[a-z0-9]+)*$
KEBAB_RE(s) ==
    /\ Len(s) >= 1
    /\ s[1] \in Lower
    /\ \A i \in 1..Len(s) : s[i] \in Lower \cup Digit \cup {"-"}
    /\ s[Len(s)] # "-"
    /\ \A i \in 1..(Len(s) - 1) : ~(s[i] = "-" /\ s[i + 1] = "-")

\* (0|[1-9]\d*)
NumericId(s) ==
    /\ Len(s) >= 1
    /\ \A i \in 1..Len(s) : s[i] \in Digit
    /\ (Len(s) > 1 => s[1] # "0")

\* [0-9A-Za-z-]+
PreId(s) ==
    /\ Len(s) >= 1
    /\ \A i \in 1..Len(s) : s[i] \in Digit \cup Upper \cup Lower \cup {"-"}

\* SEMVER_RE.match(s) for a str s:
\* ^(0|[1-9]\d*)\.(0|[1-9]\d*)\.(0|[1-9]\d*)(-[0-9A-Za-z-]+(\.[0-9A-Za-z-]+)*)?$
SEMVER_RE(s) ==
    LET dash == {i \in 1..Len(s) : s[i] = "-"}
        cut  == IF dash = {} THEN Len(s) + 1
                ELSE CHOOSE i \in dash : \A j \in dash : i <= j
        core == Split(SubSeq(s, 1, cut - 1), ".")
        pre  == Split(SubSeq(s, cut + 1, Len(s)), ".")
    IN  /\ Len(core) = 3
        /\ \A i \in 1..3 : NumericId(core[i])
        /\ (dash # {} => \A i \in 1..Len(pre) : PreId(pre[i]))

(***************************************************************************)
(* JSON values and the Python operations the validator applies to them     *)
(***************************************************************************)
Null == [t |-> "null"]
Str(s) == [t |-> "str", v |-> s]
Num(n) == [t |-> "num", v |-> n]
Bool(b) == [t |-> "bool", v |-> b]
List(l) == [t |-> "list", v |-> l]
\* A dict keeps the order in which the file lists its keys (k); a key given
\* twice keeps its last value.
Obj(pairs) ==
    LET keys == {pairs[i][1] : i \in 1..Len(pairs)}
        last(key) == CHOOSE i \in 1..Len(pairs) :
                         /\ pairs[i][1] = key
                         /\ \A j \in (i + 1)..Len(pairs) : pairs[j][1] # key
        first(i) == \A j \in 1..(i - 1) : pairs[j][1] # pairs[i][1]
        RECURSIVE order(_)
        order(i) == IF i > Len(pairs) THEN <<>>
                    ELSE (IF first(i) THEN <<pairs[i][1]>> ELSE <<>>)
                         \o order(i + 1)
    IN  [t |-> "obj", k |-> order(1), v |-> [key \in keys |-> pairs[last(key)][2]]]
EmptyObj == Obj(<<>>)

\* list(d.values())
Values(d) == [i \in 1..Len(d.k) |-> d.v[d.k[i]]]

\* bool(x): None, False, 0, "", [] and {} are falsy.
Truthy(x) ==
    CASE x.t = "null" -> FALSE
      [] x.t = "bool" -> x.v
      [] x.t = "num" -> x.v # 0
      [] x.t = "str" -> x.v # <<>>
      [] x.t = "list" -> x.v # <<>>
      [] x.t = "obj" -> DOMAIN x.v # {}

\* "key in d" for a dict d
HasKey(d, key) == key \in DOMAIN d.v

\* d.get(key, default) for a dict d
Get(d, key, default) == IF HasKey(d, key) THEN d.v[key] ELSE default

\* Only a dict has .get: on any other value the call raises AttributeError.
HasGet(x) == x.t = "obj"

\* re.Pattern.match(x) raises TypeError unless x is a str.
Matchable(x) == x.t = "str"

\* len(x) raises TypeError on None, a bool and a number.
HasLen(x) == x.t \in {"str", "list", "obj"}
PyLen(x) == IF x.t = "obj" THEN Cardinality(DOMAIN x.v) ELSE Len(x.v)

(***************************************************************************)
(* Console text.  An f-string is its template and the values it            *)
(* interpolates; a plain str value s is Text(s).                           *)
(***************************************************************************)
Fmt(template, args) == [f |-> template, v |-> args]
Text(s) == Fmt("{0}", <<s>>)
NoDetail == Fmt("", <<>>)
\* bool(detail) of a str
NonEmpty(d) == ~(d.f = "" \/ (d.f = "{0}" /\ d.v[1] = <<>>))

(***************************************************************************)
(* The result accumulator (module globals) and the console                 *)
(***************************************************************************)
VARIABLES passed, failed, warned, failure_details, warning_details, out, exc


None == "None"

Acc == [passed |-> passed, failed |-> failed, warned |-> warned,
        failure_details |-> failure_details,
        warning_details |-> warning_details, out |-> out, exc |-> exc]

EmptyAcc == [passed |-> 0, failed |-> 0, warned |-> 0,
             failure_details |-> <<>>, warning_details |-> <<>>,
             out |-> <<>>, exc |-> None]

Line(status, label) == [label |-> label, status |-> status]
Stored(label, detail) == [detail |-> detail, label |-> label]

record_pass(st, label) ==
    [st EXCEPT !.passed = @ + 1,
               !.out = Append(@, Line("PASS", label))]

\* A record_fail that keeps only the latest detail.
record_fail_Overwrite(st, label, detail) ==
    [st EXCEPT !.failed = @ + 1,
               !.out = Append(@, Line("FAIL", label)),
               !.failure_details =
                   IF NonEmpty(detail) THEN <<Stored(label, detail)>>
                   ELSE @]

record_fail(st, label, detail) ==
    [st EXCEPT !.failed = @ + 1,
               !.out = Append(@, Line("FAIL", label)),
               !.failure_details =
                   IF NonEmpty(detail) THEN Append(@, Stored(label, detail))
                   ELSE @]

record_warn(st, label, detail) ==
    [st EXCEPT !.warned = @ + 1,
               !.out = Append(@, Line("WARN", label)),
               !.warning_details =
                   IF NonEmpty(detail) THEN Append(@, Stored(label, detail))
                   ELSE @]

section(st, title) ==
    [st EXCEPT !.out = Append(@, [section |-> title])]

(***************************************************************************)
(* A handler's body is the sequence of calls it makes; an exception ends   *)
(* it at the call that raises, keeping what was recorded before.           *)
(***************************************************************************)
Pass(label) == [op |-> "pass", label |-> label]
Fail(label, detail) == [op |-> "fail", label |-> label, detail |-> detail]
Warn(label, detail) == [op |-> "warn", label |-> label, detail |-> detail]
Section(title) == [op |-> "section", title |-> title]
Raise(e) == [op |-> "raise", exc |-> e]

Call(st, c) ==
    CASE c.op = "pass" -> record_pass(st, c.label)
      [] c.op = "fail" -> record_fail(st, c.label, c.detail)
      [] c.op = "warn" -> record_warn(st, c.label, c.detail)
      [] c.op = "section" -> section(st, c.title)
      [] c.op = "raise" -> [st EXCEPT !.exc = c.exc]

RECURSIVE Run(_, _)
Run(st, calls) ==
    IF calls = <<>> \/ st.exc # None THEN st
    ELSE Run(Call(st, Head(calls)), Tail(calls))

Raises(calls) == \E i \in 1..Len(calls) : calls[i].op = "raise"

SetAcc(st) ==
    /\ passed' = st.passed
    /\ failed' = st.failed
    /\ warned' = st.warned
    /\ failure_details' = st.failure_details
    /\ warning_details' = st.warning_details
    /\ out' = st.out
    /\ exc' = st.exc

(***************************************************************************)
(* The input tree                                                          *)
(*   tree: plugin directory name -> [manifest, skills, paths]              *)
(*     manifest  .claude-plugin/plugin.json: NoFile, BadJson or            *)
(*               JsonFile(value)                                           *)
(*     skills    skill directory name -> skill directory                   *)
(*     paths     the paths that exist under the plugin directory, each the *)
(*               sequence of its segments                                  *)
(*   registry    .claude-plugin/marketplace.json                           *)
(***************************************************************************)
NoFile == [k |-> "absent"]
BadJson == [k |-> "garbage"]
JsonFile(value) == [k |-> "json", v |-> value]
TextFile(s) == [k |-> "text", v |-> s]

\* Path.exists() of a file of the tree
Exists(file) == file # NoFile

VARIABLES tree, registry, skills, plugins, sr, mp_data, i, pc, exit_code

\* A function called on its own: the document handed to parse_frontmatter
\* and what the calls returned.
VARIABLES document, result

vars == <<passed, failed, warned, failure_details, warning_details, out, exc,
          tree, registry, skills, plugins, sr, mp_data, i, pc, exit_code,
          document, result>>


RECURSIVE SortedNames(_)
\* sorted(S) for a set of names
SortedNames(S) ==
    IF S = {} THEN <<>>
    ELSE LET m == CHOOSE x \in S : \A y \in S \ {x} : StrLess(x, y)
         IN  <<m>> \o SortedNames(S \ {m})

\* An order by skill name first.
SkillLess_BySkill(a, b) ==
    \/ StrLess(a.skill, b.skill)
    \/ a.skill = b.skill /\ StrLess(a.plugin, b.plugin)

\* Path.__lt__ on two paths under plugins/ that differ in (plugin, skill)
SkillLess(a, b) ==
    \/ StrLess(a.plugin, b.plugin)
    \/ a.plugin = b.plugin /\ StrLess(a.skill, b.skill)

RECURSIVE SortedSkillDirs(_)
\* sorted(S) for a set of skill directories
SortedSkillDirs(S) ==
    IF S = {} THEN <<>>
    ELSE LET m == CHOOSE x \in S : \A y \in S \ {x} : SkillLess(x, y)
         IN  <<m>> \o SortedSkillDirs(S \ {m})

\* A discovery that looks for skills under the discovered plugins only.
discover_skills_OfPlugins(t) ==
    LET dirs == {[plugin |-> p, skill |-> s] :
                    <<p, s>> \in UNION {{<<p, s>> : s \in DOMAIN t[p].skills} :
                                            p \in DOMAIN t}}
        sorted == SortedSkillDirs(dirs)
    IN  SelectSeq(sorted, LAMBDA d : /\ Exists(t[d.plugin].skills[d.skill].doc)
                                     /\ Exists(t[d.plugin].manifest))

discover_skills(t) ==
    LET dirs == {[plugin |-> p, skill |-> s] :
                    <<p, s>> \in UNION {{<<p, s>> : s \in DOMAIN t[p].skills} :
                                            p \in DOMAIN t}}
        sorted == SortedSkillDirs(dirs)
    IN  SelectSeq(sorted, LAMBDA d : Exists(t[d.plugin].skills[d.skill].doc))

discover_plugins(t) ==
    SelectSeq(SortedNames(DOMAIN t), LAMBDA p : Exists(t[p].manifest))

(***************************************************************************)
(* Layer 1: skills, by the external validator                              *)
(***************************************************************************)
\* find_skills_ref: env.which is shutil.which("skills-ref"), env.venv_bin
\* whether the submodule's venv holds the binary.
find_skills_ref(env) ==
    IF env.which THEN "PATH"
    ELSE IF env.venv_bin THEN "VENV"
    ELSE None

InstallOutcomes == {"CalledProcessError", "FileNotFoundError", "on_path",
                    "in_venv", "nothing"}

\* What "uv pip install -e" leaves behind when it exits 0.
AfterInstall(env, install) ==
    [env EXCEPT !.which = @ \/ install = "on_path",
                !.venv_bin = @ \/ install = "in_venv"]

ensure_skills_ref(env, install) ==
    IF find_skills_ref(env) # None THEN find_skills_ref(env)
    ELSE IF env.submodule
         THEN IF install \in {"CalledProcessError", "FileNotFoundError"}
              THEN None
              ELSE find_skills_ref(AfterInstall(env, install))
         ELSE None

SkillLabel(s) == Fmt("{plugin_name}/{skill_name}", <<s.plugin, s.skill>>)

Whitespace == {" ", "\n", "\t", "\r"}

RECURSIVE LStrip(_)
LStrip(s) == IF s # <<>> /\ Head(s) \in Whitespace THEN LStrip(Tail(s)) ELSE s

RECURSIVE RStrip(_)
RStrip(s) ==
    IF s # <<>> /\ s[Len(s)] \in Whitespace
    THEN RStrip(SubSeq(s, 1, Len(s) - 1)) ELSE s

\* str.strip()
Strip(s) == RStrip(LStrip(s))

\* What "skills-ref validate <dir>" does on a skill directory: its exit
\* status and the text of its two streams.  It is a property of the
\* directory (its "verdict" field), since the tool reads nothing else.
Valid == [rc |-> 0, stdout |-> <<>>, stderr |-> <<>>]
Invalid(stdout, stderr) == [rc |-> 1, stdout |-> stdout, stderr |-> stderr]

\* A Layer 1 that says nothing when the validator is unavailable.
Layer1EnterCalls_Silent(found) ==
    <<Section("Layer 1: Skills (skills-ref validate)")>>

Layer1EnterCalls(found) ==
    <<Section("Layer 1: Skills (skills-ref validate)")>>
    \o (IF found = None
        THEN <<Fail(Fmt("skills-ref", <<>>),
                    Fmt("skills-ref CLI not found and could not be installed.", <<>>))>>
        ELSE <<>>)

\* A Layer 1 that hands the validator's output on as it came.
Layer1SkillCalls_Unstripped(s, res) ==
    IF res.rc = 0 THEN <<Pass(SkillLabel(s))>>
    ELSE <<Fail(SkillLabel(s), Text(res.stdout \o res.stderr))>>

Layer1SkillCalls(s, res) ==
    IF res.rc = 0 THEN <<Pass(SkillLabel(s))>>
    ELSE <<Fail(SkillLabel(s), Text(Strip(res.stdout \o res.stderr)))>>

(***************************************************************************)
(* Layer 2: plugin manifests.  Each check is the calls it makes for one    *)
(* plugin "name" whose manifest parsed to "data".                          *)
(***************************************************************************)
DESC_MIN == 50
DESC_MAX == 200

PluginLabel(name, check) == Fmt(check, <<name>>)

NameCalls(name, data) ==
    LET pj_name == Get(data, "name", Str(<<>>))
    IN  IF ~Truthy(pj_name)
        THEN <<Fail(PluginLabel(name, "{name}: required field 'name'"),
                    Fmt("name is missing", <<>>))>>
        ELSE <<Pass(PluginLabel(name, "{name}: required field 'name'"))>>

KebabCalls(name, data) ==
    LET pj_name == Get(data, "name", Str(<<>>))
    IN  IF ~Truthy(pj_name) THEN <<>>
        ELSE IF ~Matchable(pj_name) THEN <<Raise("TypeError")>>
        ELSE IF ~KEBAB_RE(pj_name.v)
        THEN <<Fail(PluginLabel(name, "{name}: name kebab-case"),
                    Fmt("'{pj_name}' does not match {KEBAB_RE.pattern}",
                        <<pj_name>>))>>
        ELSE <<Pass(PluginLabel(name, "{name}: name kebab-case"))>>

NameDirCalls(name, data) ==
    LET pj_name == Get(data, "name", Str(<<>>))
    IN  IF ~Truthy(pj_name) THEN <<>>
        ELSE IF pj_name # Str(name)
        THEN <<Fail(PluginLabel(name, "{name}: name matches dir"),
                    Fmt("plugin.json name '{pj_name}' != directory '{name}'",
                        <<pj_name, Str(name)>>))>>
        ELSE <<Pass(PluginLabel(name, "{name}: name matches dir"))>>

VersionCalls(name, data) ==
    LET version == Get(data, "version", Str(<<>>))
    IN  IF ~Truthy(version)
        THEN <<Fail(PluginLabel(name, "{name}: version present"),
                    Fmt("version field is missing", <<>>))>>
        ELSE IF ~Matchable(version) THEN <<Raise("TypeError")>>
        ELSE IF ~SEMVER_RE(version.v)
        THEN <<Fail(PluginLabel(name, "{name}: semver version"),
                    Fmt("'{version}' is not valid semver", <<version>>))>>
        ELSE <<Pass(PluginLabel(name, "{name}: semver version"))>>

\* A description check whose bounds are exclusive.
DescriptionCalls_Exclusive(name, data) ==
    LET desc == Get(data, "description", Str(<<>>))
    IN  IF ~Truthy(desc)
        THEN <<Fail(PluginLabel(name, "{name}: description present"),
                    Fmt("description is missing", <<>>))>>
        ELSE IF ~HasLen(desc) THEN <<Raise("TypeError")>>
        ELSE LET dlen == PyLen(desc)
             IN  IF dlen <= DESC_MIN \/ dlen >= DESC_MAX
                 THEN <<Warn(Fmt("{name}: description length ({dlen} chars)",
                                 <<name, dlen>>),
                             Fmt("Recommended 50-200 chars, got {dlen}",
                                 <<dlen>>))>>
                 ELSE <<Pass(PluginLabel(name, "{name}: description length"))>>

DescriptionCalls(name, data) ==
    LET desc == Get(data, "description", Str(<<>>))
    IN  IF ~Truthy(desc)
        THEN <<Fail(PluginLabel(name, "{name}: description present"),
                    Fmt("description is missing", <<>>))>>
        ELSE IF ~HasLen(desc) THEN <<Raise("TypeError")>>
        ELSE LET dlen == PyLen(desc)
             IN  IF dlen < DESC_MIN \/ dlen > DESC_MAX
                 THEN <<Warn(Fmt("{name}: description length ({dlen} chars)",
                                 <<name, dlen>>),
                             Fmt("Recommended 50-200 chars, got {dlen}",
                                 <<dlen>>))>>
                 ELSE <<Pass(PluginLabel(name, "{name}: description length"))>>

AuthorCalls(name, data) ==
    LET author == Get(data, "author", Null)
    IN  IF ~Truthy(author)
        THEN <<Fail(PluginLabel(name, "{name}: author present"),
                    Fmt("author field is missing", <<>>))>>
        ELSE IF author.t = "obj" /\ ~Truthy(Get(author, "name", Null))
        THEN <<Fail(PluginLabel(name, "{name}: author.name present"),
                    Fmt("author object missing 'name'", <<>>))>>
        ELSE <<Pass(PluginLabel(name, "{name}: author present"))>>

COMPONENT_FIELDS == <<"commands", "hooks", "mcpServers", "agents">>

RECURSIVE Flatten(_)
Flatten(seqs) == IF seqs = <<>> THEN <<>> ELSE Head(seqs) \o Flatten(Tail(seqs))

\* A nested dict searched for the strings that start with "./" only.
NestedPaths_PrefixOnly(v) ==
    LET vals == Values(v)
    IN  Flatten([j \in 1..Len(vals) |->
            IF vals[j].t = "str" /\ StartsWith(vals[j].v, <<".", "/">>)
            THEN <<vals[j].v>> ELSE <<>>])

\* The strings of a nested dict that look like paths.
NestedPaths(v) ==
    LET vals == Values(v)
    IN  Flatten([j \in 1..Len(vals) |->
            IF vals[j].t = "str"
               /\ (StartsWith(vals[j].v, <<".", "/">>) \/ Contains(vals[j].v, <<"/">>))
            THEN <<vals[j].v>> ELSE <<>>])

\* paths_to_check of one component field value
PathsToCheck(comp) ==
    IF comp.t = "str" THEN <<comp.v>>
    ELSE IF comp.t = "obj"
    THEN LET vals == Values(comp)
         IN  Flatten([j \in 1..Len(vals) |->
                 IF vals[j].t = "str" THEN <<vals[j].v>>
                 ELSE IF vals[j].t = "obj" THEN NestedPaths(vals[j])
                 ELSE <<>>])
    ELSE <<>>

\* (pdir / p).exists(): pathlib drops the "." and empty segments of p.
Resolved(p) == SelectSeq(Split(p, "/"), LAMBDA seg : seg # <<>> /\ seg # <<".">>)
PathExists(dir, p) == Resolved(p) = <<>> \/ Resolved(p) \in dir.paths

\* A path check that goes to the disk without looking for "..".
PathCalls_NoTraversal(name, dir, comp_field, p) ==
    IF ~StartsWith(p, <<".", "/">>)
    THEN <<Fail(Fmt("{name}: {comp_field} path '{p}'", <<name, comp_field, p>>),
                Fmt("Component paths must start with './'", <<>>))>>
    ELSE IF ~PathExists(dir, p)
    THEN <<Fail(Fmt("{name}: {comp_field} path '{p}' exists", <<name, comp_field, p>>),
                Fmt("{resolved} not found on disk", <<name, p>>))>>
    ELSE <<Pass(Fmt("{name}: {comp_field} path '{p}' exists", <<name, comp_field, p>>))>>

PathCalls(name, dir, comp_field, p) ==
    IF ~StartsWith(p, <<".", "/">>)
    THEN <<Fail(Fmt("{name}: {comp_field} path '{p}'", <<name, comp_field, p>>),
                Fmt("Component paths must start with './'", <<>>))>>
    ELSE IF Contains(p, <<".", ".">>)
    THEN <<Fail(Fmt("{name}: {comp_field} path '{p}'", <<name, comp_field, p>>),
                Fmt("Component paths must not contain '..'", <<>>))>>
    ELSE IF ~PathExists(dir, p)
    THEN <<Fail(Fmt("{name}: {comp_field} path '{p}' exists", <<name, comp_field, p>>),
                Fmt("{resolved} not found on disk", <<name, p>>))>>
    ELSE <<Pass(Fmt("{name}: {comp_field} path '{p}' exists", <<name, comp_field, p>>))>>

ComponentCalls(name, dir, data) ==
    Flatten([f \in 1..Len(COMPONENT_FIELDS) |->
        LET comp == Get(data, COMPONENT_FIELDS[f], Null)
            paths == PathsToCheck(comp)
        IN  Flatten([j \in 1..Len(paths) |->
                PathCalls(name, dir, COMPONENT_FIELDS[f], paths[j])])])

\* An iteration that goes on to the field checks after a parse failure.
Layer2PluginCalls_NoContinue(name, dir) ==
    IF ~Exists(dir.manifest)
    THEN <<Fail(PluginLabel(name, "{name}: file exists"),
                Fmt("{pj_path} not found", <<name>>))>>
    ELSE LET data == IF dir.manifest = BadJson THEN EmptyObj ELSE dir.manifest.v
         IN  <<Pass(PluginLabel(name, "{name}: file exists"))>> \o
             (IF dir.manifest = BadJson
              THEN <<Fail(PluginLabel(name, "{name}: valid JSON"),
                          Fmt("{exc}", <<name>>))>>
              ELSE <<Pass(PluginLabel(name, "{name}: valid JSON"))>>) \o
             (IF ~HasGet(data) THEN <<Raise("AttributeError")>>
              ELSE NameCalls(name, data) \o KebabCalls(name, data)
                   \o NameDirCalls(name, data) \o VersionCalls(name, data)
                   \o DescriptionCalls(name, data) \o AuthorCalls(name, data)
                   \o ComponentCalls(name, dir, data))

\* One iteration of layer2_plugins' loop.
Layer2PluginCalls(name, dir) ==
    IF ~Exists(dir.manifest)
    THEN <<Fail(PluginLabel(name, "{name}: file exists"),
                Fmt("{pj_path} not found", <<name>>))>>
    ELSE <<Pass(PluginLabel(name, "{name}: file exists"))>> \o
         (IF dir.manifest = BadJson
          THEN <<Fail(PluginLabel(name, "{name}: valid JSON"),
                      Fmt("{exc}", <<name>>))>>
          ELSE LET data == dir.manifest.v
               IN  <<Pass(PluginLabel(name, "{name}: valid JSON"))>> \o
                   (IF ~HasGet(data) THEN <<Raise("AttributeError")>>
                    ELSE NameCalls(name, data) \o KebabCalls(name, data)
                         \o NameDirCalls(name, data) \o VersionCalls(name, data)
                         \o DescriptionCalls(name, data) \o AuthorCalls(name, data)
                         \o ComponentCalls(name, dir, data)))

(***************************************************************************)
(* Layer 3: the registry.  layer3_marketplace is the calls it makes and    *)
(* the value it returns (Null is Python's None).                           *)
(***************************************************************************)
KeyChars == [name |-> <<"n", "a", "m", "e">>,
             owner |-> <<"o", "w", "n", "e", "r">>,
             plugins |-> <<"p", "l", "u", "g", "i", "n", "s">>]

\* "x in data" is defined for a dict (its keys), a list (its items) and a
\* str (substring); on anything else it raises TypeError.
HasIn(data) == data.t \in {"obj", "list", "str"}
In(field, data) ==
    CASE data.t = "obj" -> HasKey(data, field)
      [] data.t = "list" -> \E j \in 1..Len(data.v) : data.v[j] = Str(KeyChars[field])
      [] data.t = "str" -> Contains(data.v, KeyChars[field])

TopFieldCalls(data, field) ==
    IF ~HasIn(data) THEN <<Raise("TypeError")>>
    ELSE IF ~In(field, data)
    THEN <<Fail(Fmt("field: {field}", <<field>>),
                Fmt("'{field}' missing from marketplace.json", <<field>>))>>
    ELSE <<Pass(Fmt("field: {field}", <<field>>))>>

MetaVersionCalls(meta) ==
    IF ~Truthy(Get(meta, "version", Null))
    THEN <<Fail(Fmt("field: metadata.version", <<>>),
                Fmt("metadata.version missing", <<>>))>>
    ELSE IF ~Matchable(meta.v["version"]) THEN <<Raise("TypeError")>>
    ELSE IF ~SEMVER_RE(meta.v["version"].v)
    THEN <<Fail(Fmt("field: metadata.version", <<>>),
                Fmt("'{meta['version']}' is not valid semver", <<meta.v["version"]>>))>>
    ELSE <<Pass(Fmt("field: metadata.version", <<>>))>>

\* A metadata description held to the length bounds of a plugin's.
MetaDescriptionCalls_Length(meta) ==
    IF ~Truthy(Get(meta, "description", Null))
    THEN <<Fail(Fmt("field: metadata.description", <<>>),
                Fmt("metadata.description missing", <<>>))>>
    ELSE IF HasLen(meta.v["description"]) /\ PyLen(meta.v["description"]) < DESC_MIN
    THEN <<Warn(Fmt("field: metadata.description", <<>>),
                Fmt("Recommended 50-200 chars", <<>>))>>
    ELSE <<Pass(Fmt("field: metadata.description", <<>>))>>

MetaDescriptionCalls(meta) ==
    IF ~Truthy(Get(meta, "description", Null))
    THEN <<Fail(Fmt("field: metadata.description", <<>>),
                Fmt("metadata.description missing", <<>>))>>
    ELSE <<Pass(Fmt("field: metadata.description", <<>>))>>

\* type(x).__name__
TypeName(x) ==
    CASE x.t = "null" -> "NoneType"
      [] x.t = "bool" -> "bool"
      [] x.t = "num" -> "int"
      [] x.t = "str" -> "str"
      [] x.t = "list" -> "list"
      [] x.t = "obj" -> "dict"

Unnamed == Str(<<"<", "u", "n", "n", "a", "m", "e", "d", ">">>)

\* set.add(x) and a dict key need a hashable x: a list or a dict is not.
Hashable(x) == x.t \notin {"list", "obj"}

\* (REPO_ROOT / source).is_dir(): the repository holds scripts/ (this
\* script's own directory) and plugins/ with one directory per plugin.
IsDir(t, source) ==
    LET parts == Resolved(source)
    IN  \/ parts = <<>>
        \/ parts = <<<<"s", "c", "r", "i", "p", "t", "s">>>>
        \/ parts = <<<<"p", "l", "u", "g", "i", "n", "s">>>>
        \/ /\ Len(parts) = 2
           /\ parts[1] = <<"p", "l", "u", "g", "i", "n", "s">>
           /\ parts[2] \in DOMAIN t

EntryNameCalls(entry) ==
    LET ename == Get(entry, "name", Unnamed)
    IN  IF ~Truthy(Get(entry, "name", Null))
        THEN <<Fail(Fmt("{ename}: name present", <<ename>>),
                    Fmt("missing 'name'", <<>>))>>
        ELSE IF ~Matchable(ename) THEN <<Raise("TypeError")>>
        ELSE IF ~KEBAB_RE(ename.v)
        THEN <<Fail(Fmt("{ename}: name kebab-case", <<ename>>),
                    Fmt("'{ename}' does not match kebab-case", <<ename>>))>>
        ELSE <<Pass(Fmt("{ename}: name kebab-case", <<ename>>))>>

\* A source check that wants the directory of the plugin the entry names.
EntrySourceCalls_OwnDir(t, entry) ==
    LET ename == Get(entry, "name", Unnamed)
        source == Get(entry, "source", Null)
    IN  IF ~Truthy(source)
        THEN <<Fail(Fmt("{ename}: source present", <<ename>>),
                    Fmt("missing 'source'", <<>>))>>
        ELSE IF source.t # "str" THEN <<Raise("TypeError")>>
        ELSE IF ~(IsDir(t, source.v) /\ ename.t = "str"
                  /\ Resolved(source.v) = <<<<"p", "l", "u", "g", "i", "n", "s">>, ename.v>>)
        THEN <<Fail(Fmt("{ename}: source path exists", <<ename>>),
                    Fmt("{source_path} not found", <<source>>))>>
        ELSE <<Pass(Fmt("{ename}: source path exists", <<ename>>))>>

EntrySourceCalls(t, entry) ==
    LET ename == Get(entry, "name", Unnamed)
        source == Get(entry, "source", Null)
    IN  IF ~Truthy(source)
        THEN <<Fail(Fmt("{ename}: source present", <<ename>>),
                    Fmt("missing 'source'", <<>>))>>
        ELSE IF source.t # "str" THEN <<Raise("TypeError")>>
        ELSE IF ~IsDir(t, source.v)
        THEN <<Fail(Fmt("{ename}: source path exists", <<ename>>),
                    Fmt("{source_path} not found", <<source>>))>>
        ELSE <<Pass(Fmt("{ename}: source path exists", <<ename>>))>>

EntryCalls(t, entry) ==
    IF ~HasGet(entry) THEN <<Raise("AttributeError")>>
    ELSE IF ~Hashable(Get(entry, "name", Unnamed)) THEN <<Raise("TypeError")>>
    ELSE EntryNameCalls(entry) \o EntrySourceCalls(t, entry)

\* mp_names once the entry loop has run over all of mp_plugins
MpNames(mp_plugins) ==
    {Get(mp_plugins[j], "name", Unnamed) : j \in 1..Len(mp_plugins)}

OrphanCalls(dname, mp_names) ==
    IF Str(dname) \in mp_names
    THEN <<Pass(PluginLabel(dname, "{dname}: listed in marketplace"))>>
    ELSE <<Fail(PluginLabel(dname, "{dname}: listed in marketplace"),
                Fmt("Plugin directory '{dname}' exists on disk but is not in marketplace.json",
                    <<dname>>))>>

Layer3DataCalls(t, data, plugins_on_disk) ==
    TopFieldCalls(data, "name") \o TopFieldCalls(data, "owner")
    \o TopFieldCalls(data, "plugins") \o
    (IF ~HasGet(data) THEN <<Raise("AttributeError")>>
     ELSE LET meta == Get(data, "metadata", EmptyObj)
              mp_plugins == Get(data, "plugins", List(<<>>))
              disk_names == SortedNames({plugins_on_disk[j] :
                                            j \in 1..Len(plugins_on_disk)})
          IN  IF ~HasGet(meta) THEN <<Raise("AttributeError")>>
              ELSE MetaVersionCalls(meta) \o MetaDescriptionCalls(meta) \o
                   (IF mp_plugins.t # "list"
                    THEN <<Fail(Fmt("plugins is array", <<>>),
                                Fmt("plugins is {type(mp_plugins).__name__}",
                                    <<TypeName(mp_plugins)>>))>>
                    ELSE LET entries == Flatten([j \in 1..Len(mp_plugins.v) |->
                                                    EntryCalls(t, mp_plugins.v[j])])
                         IN  IF Raises(entries) THEN entries
                             ELSE entries \o
                                  Flatten([j \in 1..Len(disk_names) |->
                                      OrphanCalls(disk_names[j],
                                                  MpNames(mp_plugins.v))])))

Layer3Calls(t, reg, plugins_on_disk) ==
    <<Section("Layer 3: Marketplace registry (marketplace.json)")>> \o
    (IF ~Exists(reg)
     THEN <<Fail(Fmt("file exists", <<>>), Fmt("{MARKETPLACE_PATH} not found", <<>>))>>
     ELSE <<Pass(Fmt("file exists", <<>>))>> \o
          (IF reg = BadJson
           THEN <<Fail(Fmt("valid JSON", <<>>), Fmt("{exc}", <<>>))>>
           ELSE <<Pass(Fmt("valid JSON", <<>>))>>
                \o Layer3DataCalls(t, reg.v, plugins_on_disk)))

\* A Layer 3 that also returns None when "plugins" is not a list.
Layer3Return_ListOnly(reg) ==
    IF ~Exists(reg) \/ reg = BadJson THEN Null
    ELSE IF HasGet(reg.v) /\ Get(reg.v, "plugins", List(<<>>)).t # "list" THEN Null
    ELSE reg.v

\* The value layer3_marketplace returns when it returns.
Layer3Return(reg) == IF ~Exists(reg) \/ reg = BadJson THEN Null ELSE reg.v

(***************************************************************************)
(* Layer 4: cross-consistency                                              *)
(***************************************************************************)
\* json.loads(pj_path.read_text()) with "except Exception: pj = {}"
LoadManifest(dir) ==
    IF Exists(dir.manifest) /\ dir.manifest # BadJson THEN dir.manifest.v
    ELSE EmptyObj

\* Iterating mp_data.get("plugins", []): a list gives its items, a dict its
\* keys, a str its characters; anything else raises TypeError.
Iterable(x) == x.t \in {"list", "obj", "str"}
Items(x) ==
    CASE x.t = "list" -> x.v
      [] x.t = "obj" -> [j \in 1..Len(x.k) |-> Str(KeyChars[x.k[j]])]
      [] x.t = "str" -> [j \in 1..Len(x.v) |-> Str(<<x.v[j]>>)]

\* The comprehension {e["name"]: e for e in ... if "name" in e} raises
\* TypeError on an item that has no "in", on a str item that holds "name"
\* (e["name"] indexes a str) and on an unhashable name.
ItemRaises(e) ==
    \/ ~HasIn(e)
    \/ e.t = "str" /\ In("name", e)
    \/ e.t = "list" /\ In("name", e)
    \/ e.t = "obj" /\ In("name", e) /\ ~Hashable(e.v["name"])

\* mp_plugins as the set of its keys and the entry each key maps to (the
\* last item carrying that name).
MpPluginKeys(items) ==
    {items[j].v["name"] : j \in {n \in 1..Len(items) : In("name", items[n])}}
\* A name-to-entry map in which the first entry of a name stays.
MpPluginEntry_First(items, key) ==
    LET n == CHOOSE n \in 1..Len(items) :
                 /\ In("name", items[n]) /\ items[n].v["name"] = key
                 /\ \A m \in 1..(n - 1) :
                        ~(In("name", items[m]) /\ items[m].v["name"] = key)
    IN  items[n]

MpPluginEntry(items, key) ==
    LET n == CHOOSE n \in 1..Len(items) :
                 /\ In("name", items[n]) /\ items[n].v["name"] = key
                 /\ \A m \in (n + 1)..Len(items) :
                        ~(In("name", items[m]) /\ items[m].v["name"] = key)
    IN  items[n]

\* A name comparison that lets a manifest without a name pass.
CrossNameCalls_Lenient(name, pj, mp_entry) ==
    LET pj_name == Get(pj, "name", Str(<<>>))
    IN  IF pj_name = Get(mp_entry, "name", Str(<<>>)) \/ ~Truthy(pj_name)
        THEN <<Pass(PluginLabel(name, "{name}: name matches plugin.json"))>>
        ELSE <<Fail(PluginLabel(name, "{name}: name matches plugin.json"),
                    Fmt("marketplace '{mp_entry.get('name')}' != plugin.json '{pj_name}'",
                        <<Get(mp_entry, "name", Null), pj_name>>))>>

CrossNameCalls(name, pj, mp_entry) ==
    LET pj_name == Get(pj, "name", Str(<<>>))
    IN  IF pj_name = Get(mp_entry, "name", Str(<<>>))
        THEN <<Pass(PluginLabel(name, "{name}: name matches plugin.json"))>>
        ELSE <<Fail(PluginLabel(name, "{name}: name matches plugin.json"),
                    Fmt("marketplace '{mp_entry.get('name')}' != plugin.json '{pj_name}'",
                        <<Get(mp_entry, "name", Null), pj_name>>))>>

\* A version comparison that fails a missing version.
CrossVersionCalls_Strict(name, pj, mp_entry) ==
    LET pj_ver == Get(pj, "version", Str(<<>>))
        mp_ver == Get(mp_entry, "version", Str(<<>>))
    IN  IF Truthy(pj_ver) /\ Truthy(mp_ver) /\ pj_ver = mp_ver
        THEN <<Pass(PluginLabel(name, "{name}: version matches plugin.json"))>>
        ELSE <<Fail(PluginLabel(name, "{name}: version matches plugin.json"),
                    Fmt("marketplace '{mp_ver}' != plugin.json '{pj_ver}'",
                        <<mp_ver, pj_ver>>))>>

CrossVersionCalls(name, pj, mp_entry) ==
    LET pj_ver == Get(pj, "version", Str(<<>>))
        mp_ver == Get(mp_entry, "version", Str(<<>>))
    IN  IF Truthy(pj_ver) /\ Truthy(mp_ver) /\ pj_ver = mp_ver
        THEN <<Pass(PluginLabel(name, "{name}: version matches plugin.json"))>>
        ELSE IF Truthy(pj_ver) /\ Truthy(mp_ver)
        THEN <<Fail(PluginLabel(name, "{name}: version matches plugin.json"),
                    Fmt("marketplace '{mp_ver}' != plugin.json '{pj_ver}'",
                        <<mp_ver, pj_ver>>))>>
        ELSE <<Warn(PluginLabel(name, "{name}: version comparison"),
                    Fmt("Version missing in one or both locations", <<>>))>>

CrossPluginCalls(t, name, items) ==
    LET pj == LoadManifest(t[name])
    IN  IF Str(name) \notin MpPluginKeys(items) THEN <<>>
        ELSE IF ~HasGet(pj) THEN <<Raise("AttributeError")>>
        ELSE CrossNameCalls(name, pj, MpPluginEntry(items, Str(name)))
             \o CrossVersionCalls(name, pj, MpPluginEntry(items, Str(name)))

ReachableCalls(s, listed_plugins) ==
    IF Str(s.plugin) \in listed_plugins
    THEN <<Pass(Fmt("{label}: reachable", <<s.plugin, s.skill>>))>>
    ELSE <<Fail(Fmt("{label}: reachable", <<s.plugin, s.skill>>),
                Fmt("Skill belongs to plugin '{plugin_name}' which is not in marketplace",
                    <<s.plugin>>))>>

Layer4Calls(t, data, plugin_list, skill_list) ==
    <<Section("Layer 4: Cross-consistency")>> \o
    (IF data = Null
     THEN <<Fail(Fmt("marketplace data", <<>>),
                 Fmt("Skipped - marketplace.json invalid", <<>>))>>
     ELSE LET listed == Get(data, "plugins", List(<<>>))
          IN  IF ~Iterable(listed) THEN <<Raise("TypeError")>>
              ELSE IF \E j \in 1..Len(Items(listed)) : ItemRaises(Items(listed)[j])
              THEN <<Raise("TypeError")>>
              ELSE LET items == Items(listed)
                       cross == Flatten([j \in 1..Len(plugin_list) |->
                                    CrossPluginCalls(t, plugin_list[j], items)])
                   IN  IF Raises(cross) THEN cross
                       ELSE cross \o
                            Flatten([j \in 1..Len(skill_list) |->
                                ReachableCalls(skill_list[j], MpPluginKeys(items))]))

(***************************************************************************)
(* The frontmatter parser                                                  *)
(***************************************************************************)
Min(S) == CHOOSE x \in S : \A y \in S : x <= y

\* str.find(sub, start): 0-based index of the first occurrence, or -1.
Find(s, sub, start) ==
    LET at == {j \in (start + 1)..(Len(s) - Len(sub) + 1) :
                  SubSeq(s, j, j + Len(sub) - 1) = sub}
    IN  IF at = {} THEN -1 ELSE Min(at) - 1

RECURSIVE Join(_, _)
\* sep.join(parts)
Join(parts, sep) ==
    IF parts = <<>> THEN <<>>
    ELSE IF Len(parts) = 1 THEN parts[1]
    ELSE parts[1] \o sep \o Join(Tail(parts), sep)

RECURSIVE LStripNewlines(_)
\* str.lstrip("\n")
LStripNewlines(s) ==
    IF s # <<>> /\ Head(s) = "\n" THEN LStripNewlines(Tail(s)) ELSE s

WordChar == Lower \cup Upper \cup Digit \cup {"_"}

\* re.match(r"^([a-z][\w-]*):\s*(.*)", line): the length of group 1, or 0
\* when the line does not match.
KeyLen(line) ==
    IF line = <<>> \/ Head(line) \notin Lower THEN 0
    ELSE LET stop == {j \in 1..Len(line) : line[j] \notin WordChar \cup {"-"}}
         IN  IF stop # {} /\ line[Min(stop)] = ":" THEN Min(stop) - 1 ELSE 0

BlockIndicators == {<<">">>, <<"|">>, <<">", "-">>, <<"|", "-">>}

\* A _flush that joins the lines as they stand, untrimmed.
Flush_Untrimmed(p) ==
    IF p.current_key # <<>>
    THEN (p.current_key :> Join(p.current_val_lines, <<" ">>)) @@ p.fm
    ELSE p.fm

\* _flush(): store the pending key, if any.
Flush(p) ==
    IF p.current_key # <<>>
    THEN (p.current_key :>
             Join(SelectSeq([j \in 1..Len(p.current_val_lines) |->
                                Strip(p.current_val_lines[j])],
                            LAMBDA l : l # <<>>), <<" ">>)) @@ p.fm
    ELSE p.fm

\* One iteration of the loop over raw.split("\n").
ParseLine(p, line) ==
    IF KeyLen(line) > 0 /\ ~(p.is_block /\ StartsWith(line, <<" ">>))
    THEN LET val == Strip(SubSeq(line, KeyLen(line) + 2, Len(line)))
         IN  [fm |-> Flush(p),
              current_key |-> SubSeq(line, 1, KeyLen(line)),
              is_block |-> val \in BlockIndicators,
              current_val_lines |-> IF val \in BlockIndicators THEN <<>> ELSE <<val>>]
    ELSE [p EXCEPT !.current_val_lines = Append(@, line)]

RECURSIVE ParseLines(_, _)
ParseLines(p, lines) ==
    IF lines = <<>> THEN p ELSE ParseLines(ParseLine(p, Head(lines)), Tail(lines))

\* A parser that takes a header wherever the text holds a closing line.
parse_frontmatter_Unanchored(text) ==
    LET end == Find(text, <<"\n", "-", "-", "-">>, 3)
    IN  IF end = -1
        THEN [fm |-> <<>>, body |-> text]
        ELSE LET raw == SubSeq(text, 5, end)
                 p0 == [fm |-> <<>>, current_key |-> <<>>, is_block |-> FALSE,
                        current_val_lines |-> <<>>]
             IN  [fm |-> Flush(ParseLines(p0, Split(raw, "\n"))),
                  body |-> LStripNewlines(SubSeq(text, end + 5, Len(text)))]

\* parse_frontmatter(text): [fm |-> key -> value, body |-> str]
parse_frontmatter(text) ==
    LET end == Find(text, <<"\n", "-", "-", "-">>, 3)
    IN  IF ~StartsWith(text, <<"-", "-", "-">>) \/ end = -1
        THEN [fm |-> <<>>, body |-> text]
        ELSE LET raw == SubSeq(text, 5, end)
                 p0 == [fm |-> <<>>, current_key |-> <<>>, is_block |-> FALSE,
                        current_val_lines |-> <<>>]
             IN  [fm |-> Flush(ParseLines(p0, Split(raw, "\n"))),
                  body |-> LStripNewlines(SubSeq(text, end + 5, Len(text)))]

(***************************************************************************)
(* Layer 5: skill quality                                                  *)
(***************************************************************************)
BODY_MAX_LINES == 500

Pronouns == {<<"I", " ">>, <<"Y", "o", "u", " ">>, <<"W", "e", " ">>,
             <<"M", "y", " ">>, <<"Y", "o", "u", "r", " ">>}

At(s, j, sub) == j + Len(sub) - 1 <= Len(s) /\ SubSeq(s, j, j + Len(sub) - 1) = sub

\* FIRST_SECOND_PERSON_RE.search(desc):
\* (?:^|(?<=\.\s))\s*(?:I |You |We |My |Your ) with re.MULTILINE
FIRST_SECOND_PERSON_RE(desc) ==
    \E a \in 1..(Len(desc) + 1) :
        /\ \/ a = 1
           \/ desc[a - 1] = "\n"
           \/ a >= 3 /\ desc[a - 2] = "." /\ desc[a - 1] \in Whitespace
        /\ \E b \in a..Len(desc) :
              /\ \A j \in a..(b - 1) : desc[j] \in Whitespace
              /\ \E pr \in Pronouns : At(desc, b, pr)

UpperSeq == <<"A", "B", "C", "D", "E", "F", "G", "H", "I", "J", "K", "L", "M",
              "N", "O", "P", "Q", "R", "S", "T", "U", "V", "W", "X", "Y", "Z">>
LowerSeq == <<"a", "b", "c", "d", "e", "f", "g", "h", "i", "j", "k", "l", "m",
              "n", "o", "p", "q", "r", "s", "t", "u", "v", "w", "x", "y", "z">>
ToLower(c) ==
    IF c \in Upper THEN LowerSeq[CHOOSE j \in 1..Len(UpperSeq) : UpperSeq[j] = c] ELSE c
LowerCase(s) == [j \in 1..Len(s) |-> ToLower(s[j])]

\* \b between positions j - 1 and j of s
Boundary(s, j) ==
    (j >= 2 /\ j - 1 <= Len(s) /\ s[j - 1] \in WordChar)
        # (j >= 1 /\ j <= Len(s) /\ s[j] \in WordChar)

\* The positions just after a match of triggers?\s+(?:on|when) begun at j
TriggersEnds(s, j) ==
    {e \in (j + 1)..(Len(s) + 1) :
        \E w \in {<<"t", "r", "i", "g", "g", "e", "r">>,
                  <<"t", "r", "i", "g", "g", "e", "r", "s">>} :
        \E tail \in {<<"o", "n">>, <<"w", "h", "e", "n">>} :
            /\ At(s, j, w)
            /\ e - Len(tail) > j + Len(w)
            /\ \A m \in (j + Len(w))..(e - Len(tail) - 1) : s[m] \in Whitespace
            /\ At(s, e - Len(tail), tail)}

TriggerWords == {<<"w", "h", "e", "n", "e", "v", "e", "r">>, <<"w", "h", "e", "n">>,
                 <<"u", "s", "e", " ", "w", "h", "e", "n">>}

\* TRIGGER_CONTEXT_RE.search(desc):
\* \b(?:whenever|when|use when|triggers?\s+(?:on|when))\b with re.IGNORECASE
TRIGGER_CONTEXT_RE(desc) ==
    LET s == LowerCase(desc)
    IN  \E j \in 1..Len(s) :
            /\ Boundary(s, j)
            /\ \/ \E w \in TriggerWords : At(s, j, w) /\ Boundary(s, j + Len(w))
               \/ \E e \in TriggersEnds(s, j) : Boundary(s, e)

\* body.count("\n") + (1 if body and not body.endswith("\n") else 0)
BodyLines(body) ==
    Cardinality({j \in 1..Len(body) : body[j] = "\n"})
    + (IF body # <<>> /\ body[Len(body)] # "\n" THEN 1 ELSE 0)

\* The backquote character (U+0060), written as a word.
Backquote == "BACKQUOTE"
Fence == <<Backquote, Backquote, Backquote>>

RECURSIVE StripFences(_)
\* re.sub(fence + r"[\s\S]*?" + fence, "", content), fence being 3 backquotes
StripFences(content) ==
    LET open == Find(content, Fence, 0)
        close == Find(content, Fence, open + 3)
    IN  IF open = -1 \/ close = -1 THEN content
        ELSE SubSeq(content, 1, open)
             \o StripFences(SubSeq(content, close + 4, Len(content)))

NestedLink == <<"]", "(", "r", "e", "f", "e", "r", "e", "n", "c", "e", "s", "/">>

EXTRANEOUS_FILES == {"README.md", "CHANGELOG.md", "INSTALLATION_GUIDE.md"}

NoDir == [k |-> "absent"]
Dir(files) == [k |-> "dir", files |-> files]

VoiceCalls(s, desc) ==
    IF desc # <<>> /\ FIRST_SECOND_PERSON_RE(desc)
    THEN <<Warn(Fmt("{label}: description voice", <<s.plugin, s.skill>>),
                Fmt("Description contains first/second person sentence start", <<>>))>>
    ELSE <<Pass(Fmt("{label}: description voice", <<s.plugin, s.skill>>))>>

\* A trigger-context check that fails the build.
TriggerCalls_Failing(s, desc) ==
    IF desc # <<>> /\ TRIGGER_CONTEXT_RE(desc)
    THEN <<Pass(Fmt("{label}: description trigger context", <<s.plugin, s.skill>>))>>
    ELSE <<Fail(Fmt("{label}: description trigger context", <<s.plugin, s.skill>>),
                Fmt("Description lacks 'when'/'use when' trigger context", <<>>))>>

TriggerCalls(s, desc) ==
    IF desc # <<>> /\ TRIGGER_CONTEXT_RE(desc)
    THEN <<Pass(Fmt("{label}: description trigger context", <<s.plugin, s.skill>>))>>
    ELSE IF desc # <<>>
    THEN <<Warn(Fmt("{label}: description trigger context", <<s.plugin, s.skill>>),
                Fmt("Description lacks 'when'/'use when' trigger context", <<>>))>>
    ELSE <<Warn(Fmt("{label}: description trigger context", <<s.plugin, s.skill>>),
                Fmt("No description found in frontmatter", <<>>))>>

BodySizeCalls(s, body) ==
    IF BodyLines(body) > BODY_MAX_LINES
    THEN <<Warn(Fmt("{label}: body size ({body_lines} lines)",
                    <<s.plugin, s.skill, BodyLines(body)>>),
                Fmt("Exceeds 500-line recommended maximum", <<>>))>>
    ELSE <<Pass(Fmt("{label}: body size ({body_lines} lines)",
                    <<s.plugin, s.skill, BodyLines(body)>>))>>

\* references/*.md in sorted order are refs.files, each [name, content].
ReferenceCalls(s, refs) ==
    IF refs = NoDir THEN <<>>
    ELSE IF \E j \in 1..Len(refs.files) :
               Contains(StripFences(refs.files[j].content), NestedLink)
    THEN LET first == Min({j \in 1..Len(refs.files) :
                              Contains(StripFences(refs.files[j].content), NestedLink)})
         IN  <<Warn(Fmt("{label}: reference depth", <<s.plugin, s.skill>>),
                    Fmt("{ref_file.name} contains nested references/ links",
                        <<refs.files[first].name>>))>>
    ELSE <<Pass(Fmt("{label}: reference depth", <<s.plugin, s.skill>>))>>

ExtraneousCalls(s, names) ==
    IF EXTRANEOUS_FILES \cap names # {}
    THEN <<Warn(Fmt("{label}: no extraneous files", <<s.plugin, s.skill>>),
                Fmt("Found: {', '.join(sorted(found))}", <<EXTRANEOUS_FILES \cap names>>))>>
    ELSE <<Pass(Fmt("{label}: no extraneous files", <<s.plugin, s.skill>>))>>

\* One iteration of layer5_quality's loop; sdir is the skill's directory:
\* [doc |-> SKILL.md, references |-> NoDir or Dir(..), files |-> file names].
Layer5SkillCalls(s, sdir) ==
    LET parsed == parse_frontmatter(sdir.doc.v)
        desc == IF <<"d", "e", "s", "c", "r", "i", "p", "t", "i", "o", "n">>
                       \in DOMAIN parsed.fm
                THEN parsed.fm[<<"d", "e", "s", "c", "r", "i", "p", "t", "i", "o", "n">>]
                ELSE <<>>
    IN  VoiceCalls(s, desc) \o TriggerCalls(s, desc)
        \o BodySizeCalls(s, parsed.body) \o ReferenceCalls(s, sdir.references)
        \o ExtraneousCalls(s, sdir.files)

(***************************************************************************)
(* main                                                                    *)
(*   pc: "main", "layer1", "layer1_for", "layer2", "layer2_for", "layer3", *)
(*   "layer4", "layer5", "layer5_for", "report", "exited"; i is the index  *)
(*   of the current for loop.  An uncaught exception ends the process with *)
(*   a traceback and exit status 1.                                        *)
(***************************************************************************)
\* Run the calls of one step, then go on at (next_pc, next_i) unless one
\* of them raised.
Step(calls, next_pc, next_i) ==
    LET st == Run(Acc, calls)
    IN  /\ SetAcc(st)
        /\ IF st.exc # None
           THEN pc' = "exited" /\ exit_code' = 1 /\ i' = i
           ELSE pc' = next_pc /\ exit_code' = exit_code /\ i' = next_i

Main ==
    /\ pc = "main"
    /\ skills' = discover_skills(tree)
    /\ plugins' = discover_plugins(tree)
    /\ pc' = "layer1"
    /\ UNCHANGED <<passed, failed, warned, failure_details, warning_details,
                   out, exc, document, result,
                   tree, registry, sr, mp_data, i, exit_code>>

Layer1Enter ==
    /\ pc = "layer1"
    /\ \E env \in [which : BOOLEAN, venv_bin : BOOLEAN, submodule : BOOLEAN] :
       \E install \in InstallOutcomes :
           LET found == ensure_skills_ref(env, install)
           IN  /\ sr' = found
               /\ Step(Layer1EnterCalls(found),
                       IF found = None \/ skills = <<>> THEN "layer2"
                       ELSE "layer1_for", 1)
    /\ UNCHANGED <<document, result, tree, registry, skills, plugins, mp_data>>

Layer1Skill ==
    /\ pc = "layer1_for"
    /\ Step(Layer1SkillCalls(skills[i],
                             tree[skills[i].plugin].skills[skills[i].skill].verdict),
            IF i = Len(skills) THEN "layer2" ELSE "layer1_for", i + 1)
    /\ UNCHANGED <<document, result, tree, registry, skills, plugins, sr, mp_data>>

Layer2Enter ==
    /\ pc = "layer2"
    /\ Step(<<Section("Layer 2: Plugin metadata (plugin.json)")>>,
            IF plugins = <<>> THEN "layer3" ELSE "layer2_for", 1)
    /\ UNCHANGED <<document, result, tree, registry, skills, plugins, sr, mp_data>>

Layer2Plugin ==
    /\ pc = "layer2_for"
    /\ Step(Layer2PluginCalls(plugins[i], tree[plugins[i]]),
            IF i = Len(plugins) THEN "layer3" ELSE "layer2_for", i + 1)
    /\ UNCHANGED <<document, result, tree, registry, skills, plugins, sr, mp_data>>

Layer3 ==
    /\ pc = "layer3"
    /\ Step(Layer3Calls(tree, registry, plugins), "layer4", i)
    /\ mp_data' = IF Raises(Layer3Calls(tree, registry, plugins)) THEN mp_data
                  ELSE Layer3Return(registry)
    /\ UNCHANGED <<document, result, tree, registry, skills, plugins, sr>>

Layer4 ==
    /\ pc = "layer4"
    /\ Step(Layer4Calls(tree, mp_data, plugins, skills), "layer5", i)
    /\ UNCHANGED <<document, result, tree, registry, skills, plugins, sr, mp_data>>

Layer5Enter ==
    /\ pc = "layer5"
    /\ Step(<<Section("Layer 5: Skill quality (skill-shaper best practices)")>>,
            IF skills = <<>> THEN "report" ELSE "layer5_for", 1)
    /\ UNCHANGED <<document, result, tree, registry, skills, plugins, sr, mp_data>>

Layer5Skill ==
    /\ pc = "layer5_for"
    /\ Step(Layer5SkillCalls(skills[i], tree[skills[i].plugin].skills[skills[i].skill]),
            IF i = Len(skills) THEN "report" ELSE "layer5_for", i + 1)
    /\ UNCHANGED <<document, result, tree, registry, skills, plugins, sr, mp_data>>

\* A status that also counts the warnings as a reason to fail.
ExitStatus_AnyFinding(n_failed) == IF n_failed > 0 \/ warned > 0 THEN 1 ELSE 0

\* The status main() hands to sys.exit.
ExitStatus(n_failed) == IF n_failed > 0 THEN 1 ELSE 0

\* The summary, the stored details, and sys.exit.
Report ==
    /\ pc = "report"
    /\ out' = out \o <<[results |-> <<passed, failed, warned>>]>>
              \o (IF failure_details # <<>>
                  THEN <<[heading |-> "Failures:"]>>
                       \o [j \in 1..Len(failure_details) |->
                              [printed |-> failure_details[j]]]
                  ELSE <<>>)
              \o (IF warning_details # <<>>
                  THEN <<[heading |-> "Warnings:"]>>
                       \o [j \in 1..Len(warning_details) |->
                              [printed |-> warning_details[j]]]
                  ELSE <<>>)
    /\ exit_code' = ExitStatus(failed)
    /\ pc' = "exited"
    /\ UNCHANGED <<passed, failed, warned, failure_details, warning_details,
                   exc, document, result,
                   tree, registry, skills, plugins, sr, mp_data, i>>

Next ==
    \/ Main
    \/ Layer1Enter
    \/ Layer1Skill
    \/ Layer2Enter
    \/ Layer2Plugin
    \/ Layer3
    \/ Layer4
    \/ Layer5Enter
    \/ Layer5Skill
    \/ Report

\* The process before main(): nothing recorded, nothing printed.
Start ==
    /\ passed = 0
    /\ failed = 0
    /\ warned = 0
    /\ failure_details = <<>>
    /\ warning_details = <<>>
    /\ out = <<>>
    /\ exc = None
    /\ skills = <<>>
    /\ plugins = <<>>
    /\ sr = None
    /\ mp_data = Null
    /\ i = 0
    /\ pc = "main"
    /\ exit_code = -1
    /\ document = <<>>
    /\ result = None

(***************************************************************************)
(* Input trees                                                             *)
(***************************************************************************)
MaxPlugins == 2
MaxEntries == 2

bar == <<"b", "a", "r">>
foo == <<"f", "o", "o">>
qux == <<"q", "u", "x">>
zed == <<"z", "e", "d">>
DirNames == {bar, foo, qux}
s1 == <<"s", "1">>
s2 == <<"s", "2">>

DocGood ==
    <<"-", "-", "-", "\n", "n", "a", "m", "e", ":", " ", "s", "\n", "d", "e",
      "s", "c", "r", "i", "p", "t", "i", "o", "n", ":", " ", ">", "\n", " ",
      " ", "M", "a", "k", "e", " ", "x", ".", "\n", " ", " ", "U", "s", "e",
      " ", "w", "h", "e", "n", " ", "y", ".", "\n", "-", "-", "-", "\n",
      "\n", "b", "o", "d", "y", "\n">>
DocPoor ==
    <<"-", "-", "-", "\n", "d", "e", "s", "c", "r", "i", "p", "t", "i", "o",
      "n", ":", " ", "Y", "o", "u", " ", "d", "o", ".", "\n", "k", "e", "y",
      ":", " ", "|", "\n", " ", " ", "a", "\n", "b", ":", " ", "c", "\n",
      "-", "-", "-", "\n", "b", "o", "d", "y">>
DocBare == <<"#", " ", "s", "\n">>
DocLong == <<"x">> \o Repeat("\n", BODY_MAX_LINES + 1)
RefNested ==
    <<"[", "a", "]", "(", "r", "e", "f", "e", "r", "e", "n", "c", "e", "s",
      "/", "b", ".", "m", "d", ")">>
RefFenced ==
    Fence \o <<"\n", "[", "a", "]", "(", "r", "e", "f", "e", "r", "e", "n", "c",
                "e", "s", "/", "b", ".", "m", "d", ")", "\n">>
          \o Fence \o <<"\n", "o", "k">>

SkillGood == [doc |-> TextFile(DocGood), references |-> NoDir,
              files |-> {"SKILL.md"}, verdict |-> Valid]
SkillPoor == [doc |-> TextFile(DocPoor),
              references |-> Dir(<<[name |-> "a.md", content |-> RefNested]>>),
              files |-> {"SKILL.md", "README.md"},
              verdict |-> Invalid(<<>>, <<"b", "a", "d", "\n">>)]
SkillBare == [doc |-> TextFile(DocBare),
              references |-> Dir(<<[name |-> "a.md", content |-> RefFenced]>>),
              files |-> {"SKILL.md"}, verdict |-> Valid]
SkillLong == [doc |-> TextFile(DocLong), references |-> NoDir,
              files |-> {"SKILL.md"}, verdict |-> Valid]
SkillMute == [doc |-> TextFile(DocGood), references |-> NoDir,
              files |-> {"SKILL.md"}, verdict |-> Invalid(<<"\n">>, <<>>)]
SkillNoDoc == [doc |-> NoFile, references |-> NoDir, files |-> {"notes.txt"},
               verdict |-> Invalid(<<>>, <<>>)]

\* A field a JSON object does not carry.
Absent == [t |-> "absent"]
Fields(pairs) == Obj(SelectSeq(pairs, LAMBDA pr : pr[2] # Absent))

Manifest(name, version, description, author, commands) ==
    Fields(<<<<"name", name>>, <<"version", version>>,
             <<"description", description>>, <<"author", author>>,
             <<"commands", commands>>>>)

V100 == Str(<<"1", ".", "0", ".", "0">>)
V200 == Str(<<"2", ".", "0", ".", "0">>)
V10 == Str(<<"1", ".", "0">>)
Desc(n) == Str(Repeat("x", n))
AuthorA == Str(<<"A">>)

GoodManifest(d) == Manifest(Str(d), V100, Desc(DESC_MIN + 2), AuthorA, Absent)
SloppyManifest ==
    Manifest(Str(<<"F", "o", "o">>), V10, Desc(3), EmptyObj, Absent)

PluginDir(manifest, skill_dirs) ==
    [manifest |-> manifest, skills |-> skill_dirs, paths |-> {}]

\* The plugin directories the pipeline is run on, for a directory named d.
DirPlain(d) == PluginDir(JsonFile(GoodManifest(d)), <<>>)
DirOneSkill(d) == PluginDir(JsonFile(GoodManifest(d)), s1 :> SkillGood)
DirTwoSkills(d) ==
    PluginDir(JsonFile(GoodManifest(d)), (s1 :> SkillGood) @@ (s2 :> SkillPoor))
DirNoManifest == PluginDir(NoFile, (s1 :> SkillBare) @@ (s2 :> SkillNoDoc))
DirBadJson == PluginDir(BadJson, <<>>)
DirListManifest == PluginDir(JsonFile(List(<<>>)), <<>>)
DirSloppy == PluginDir(JsonFile(SloppyManifest), s1 :> SkillMute)
DirNumVersion(d) ==
    PluginDir(JsonFile(Manifest(Str(d), Num(1), Desc(DESC_MIN), AuthorA, Absent)),
              <<>>)

PluginDirs(d) ==
    {DirPlain(d), DirOneSkill(d), DirTwoSkills(d), DirNoManifest, DirBadJson,
     DirListManifest, DirSloppy, DirNumVersion(d)}

\* Every tree of at most MaxPlugins plugin directories.
Trees ==
    UNION {{t \in [names -> UNION {PluginDirs(d) : d \in names}] :
               \A d \in names : t[d] \in PluginDirs(d)} :
              names \in {S \in SUBSET DirNames : Cardinality(S) <= MaxPlugins}}

\* The trees every registry is run against.
FewTrees ==
    {<<>>, foo :> DirOneSkill(foo), foo :> DirTwoSkills(foo), foo :> DirSloppy,
     foo :> DirNoManifest, (bar :> DirOneSkill(bar)) @@ (foo :> DirPlain(foo)),
     (bar :> DirSloppy) @@ (foo :> DirTwoSkills(foo))}

PluginsDir == <<"p", "l", "u", "g", "i", "n", "s">>
Entry(name, source, version) ==
    Fields(<<<<"name", name>>, <<"source", source>>, <<"version", version>>>>)
EntryFor(d, version) == Entry(Str(d), Str(PluginsDir \o <<"/">> \o d), version)

Entries ==
    {EntryFor(foo, V100), EntryFor(foo, V200), EntryFor(bar, Absent),
     Entry(Str(zed), Str(<<"s", "c", "r", "i", "p", "t", "s">>), V100),
     Entry(Absent, Str(<<"n", "o">>), Absent),
     Str(<<"x">>)}

RECURSIVE SeqsUpTo(_, _)
\* The sequences over S of length at most n
SeqsUpTo(S, n) ==
    IF n = 0 THEN {<<>>}
    ELSE LET shorter == SeqsUpTo(S, n - 1)
         IN  shorter \cup {Append(q, x) : q \in shorter, x \in S}

GoodMeta == Fields(<<<<"version", V100>>, <<"description", Desc(3)>>>>)
Registry(metadata, plugin_list) ==
    Fields(<<<<"name", Str(<<"m">>)>>, <<"owner", Fields(<<<<"name", AuthorA>>>>)>>,
             <<"metadata", metadata>>, <<"plugins", plugin_list>>>>)

Registries ==
    {NoFile, BadJson, JsonFile(List(<<>>)), JsonFile(Null), JsonFile(EmptyObj),
     JsonFile(Fields(<<<<"plugins", List(<<>>)>>>>))}
    \cup {JsonFile(Registry(GoodMeta, List(q))) : q \in SeqsUpTo(Entries, MaxEntries)}
    \cup {JsonFile(Registry(m, List(<<EntryFor(foo, V100)>>))) :
             m \in {Absent, Str(<<"x">>), Fields(<<<<"version", Num(1)>>>>),
                    Fields(<<<<"version", V10>>>>)}}
    \cup {JsonFile(Registry(GoodMeta, p)) :
             p \in {Absent, Null, Num(1), Str(<<"x">>),
                    Fields(<<<<"name", Null>>>>), Fields(<<<<"owner", Null>>>>)}}

\* The registries every tree is run against.
FewRegistries ==
    {NoFile, BadJson, JsonFile(List(<<>>)),
     JsonFile(Registry(GoodMeta, List(<<>>))),
     JsonFile(Registry(GoodMeta, Null)),
     JsonFile(Registry(GoodMeta, List(<<EntryFor(bar, V100), EntryFor(foo, V100),
                                        EntryFor(qux, V100)>>)))}

Init ==
    /\ Start
    /\ \/ tree \in Trees /\ registry \in FewRegistries
       \/ tree \in FewTrees /\ registry \in Registries

Spec == Init /\ [][Next]_vars

(***************************************************************************)
(* One plugin, every manifest: the run over a tree that holds one plugin   *)
(* whose manifest takes every combination of the field values below.       *)
(***************************************************************************)
Foo == <<"F", "o", "o">>
ManifestNames == {Absent, Str(<<>>), Str(foo), Str(zed), Str(Foo), Num(5)}
ManifestVersions == {Absent, V100, V10, Num(1)}
ManifestDescriptions ==
    {Absent, Str(<<>>), Desc(DESC_MIN - 1), Desc(DESC_MIN), Desc(DESC_MAX),
     Desc(DESC_MAX + 1), Num(5)}
ManifestAuthors ==
    {Absent, Str(<<>>), AuthorA, Fields(<<<<"name", AuthorA>>>>), EmptyObj,
     Fields(<<<<"name", Str(<<>>)>>>>), Num(5), List(<<AuthorA>>)}
ManifestCommands == {Absent, Str(<<".", "/", ".", ".", "/", "x">>)}

Manifests ==
    {Manifest(n, v, d, a, c) :
        n \in ManifestNames, v \in ManifestVersions, d \in ManifestDescriptions,
        a \in ManifestAuthors, c \in ManifestCommands}

FooRegistry == JsonFile(Registry(GoodMeta, List(<<EntryFor(foo, V100)>>)))

\* Component declarations: a single path, a map of paths, a map of nested
\* maps; the plugin directory holds the file c, and x lies beside it.
PathC == <<".", "/", "c">>
PathD == <<".", "/", "d">>
BareC == <<"c">>
UpX == <<".", ".", "/", "x">>
DotUpX == <<".", "/", ".", ".", "/", "x">>
ComponentValues ==
    {Str(PathC), Str(PathD), Str(BareC), Str(UpX), Str(DotUpX),
     Fields(<<<<"a", Str(PathC)>>, <<"b", Str(PathD)>>>>),
     Fields(<<<<"a", Str(PathC)>>, <<"b", Str(PathC)>>>>),
     Fields(<<<<"a", Fields(<<<<"b", Str(PathC)>>, <<"c", Str(UpX)>>>>)>>,
              <<"b", Str(DotUpX)>>>>),
     Fields(<<<<"a", Fields(<<<<"b", Str(BareC)>>, <<"c", Str(<<".", ".">>)>>>>)>>>>)}

ComponentManifests(d) ==
    {Fields(<<<<"name", Str(d)>>, <<"version", V100>>,
              <<"description", Desc(DESC_MIN)>>, <<"author", AuthorA>>,
              <<COMPONENT_FIELDS[f], c>>>>) :
        f \in 1..Len(COMPONENT_FIELDS), c \in ComponentValues}
    \cup {Fields(<<<<"name", Str(d)>>, <<"version", V100>>,
                    <<"description", Desc(DESC_MIN)>>, <<"author", AuthorA>>,
                    <<"commands", Str(PathC)>>, <<"agents", Str(UpX)>>>>)}

DirWithFiles(manifest) ==
    [manifest |-> manifest, skills |-> <<>>,
     paths |-> {<<BareC>>, <<<<".", ".">>, <<"x">>>>}]

\* Skill documents whose description is one plain line, and the skill
\* directory that holds one of them and passes the external validator.
DescTerse ==
    <<"D", "o", "e", "s", " ", "x", ".">>
DescWhenever ==
    <<"D", "o", " ", "i", "t", " ", "w", "h", "e", "n", "e", "v", "e", "r",
    ".">>
DescTriggers ==
    <<"T", "r", "i", "g", "g", "e", "r", "s", " ", "o", "n", " ", "x", ".">>
DescWhence ==
    <<"T", "e", "l", "l", "s", " ", "w", "h", "e", "n", "c", "e", " ", "x",
    ".">>
DescShout ==
    <<"U", "s", "e", " ", "W", "H", "E", "N", " ", "y", ".">>
Descriptions == {DescTerse, DescWhenever, DescTriggers, DescWhence, DescShout}
DocWith(desc) ==
    <<"-", "-", "-", "\n", "d", "e", "s", "c", "r", "i", "p", "t", "i", "o", "n", ":", " ">>
    \o desc \o <<"\n", "-", "-", "-", "\n", "b", "\n">>
SkillWith(desc) ==
    [doc |-> TextFile(DocWith(desc)), references |-> NoDir,
     files |-> {"SKILL.md"}, verdict |-> Valid]

InitManifest ==
    /\ Start
    /\ registry = FooRegistry
    /\ \/ tree \in {foo :> PluginDir(JsonFile(m), <<>>) : m \in Manifests}
       \/ tree \in {foo :> DirWithFiles(JsonFile(m)) : m \in ComponentManifests(foo)}
       \/ tree \in {Foo :> PluginDir(JsonFile(m), <<>>) :
                       m \in {x \in Manifests : ~HasKey(x, "commands")}}
       \/ tree \in {foo :> DirOneSkill(foo), foo :> DirTwoSkills(foo)}
       \/ tree \in {foo :> PluginDir(JsonFile(GoodManifest(foo)), s1 :> SkillWith(d)) :
                       d \in Descriptions}
       \/ tree = foo :> PluginDir(JsonFile(GoodManifest(foo)), s1 :> SkillMute)

SpecManifest == InitManifest /\ [][Next]_vars

(***************************************************************************)
(* The accumulator alone: any sequence of at most MaxRecords calls of      *)
(* record_pass, record_fail and record_warn.                               *)
(***************************************************************************)
MaxRecords == 3

Labels == {Fmt("skills-ref", <<>>), PluginLabel(foo, "{name}: file exists")}
Details == {NoDetail, Text(<<>>), Text(<<"b", "a", "d">>),
            Fmt("name is missing", <<>>)}

Recorded == passed + failed + warned

RecordPass ==
    /\ pc = "records" /\ Recorded < MaxRecords
    /\ \E label \in Labels : SetAcc(record_pass(Acc, label))
    /\ UNCHANGED <<document, result, tree, registry, skills, plugins, sr, mp_data, i, pc, exit_code>>

RecordFail ==
    /\ pc = "records" /\ Recorded < MaxRecords
    /\ \E label \in Labels, detail \in Details :
           SetAcc(record_fail(Acc, label, detail))
    /\ UNCHANGED <<document, result, tree, registry, skills, plugins, sr, mp_data, i, pc, exit_code>>

RecordWarn ==
    /\ pc = "records" /\ Recorded < MaxRecords
    /\ \E label \in Labels, detail \in Details :
           SetAcc(record_warn(Acc, label, detail))
    /\ UNCHANGED <<document, result, tree, registry, skills, plugins, sr, mp_data, i, pc, exit_code>>

NextAccumulator == RecordPass \/ RecordFail \/ RecordWarn

\* The module as imported: the globals as lines 47-51 set them.
InitAccumulator ==
    /\ passed = EmptyAcc.passed
    /\ failed = EmptyAcc.failed
    /\ warned = EmptyAcc.warned
    /\ failure_details = EmptyAcc.failure_details
    /\ warning_details = EmptyAcc.warning_details
    /\ out = <<>>
    /\ exc = None
    /\ tree = <<>>
    /\ registry = NoFile
    /\ skills = <<>>
    /\ plugins = <<>>
    /\ sr = None
    /\ mp_data = Null
    /\ i = 0
    /\ pc = "records"
    /\ exit_code = -1
    /\ document = <<>>
    /\ result = None

SpecAccumulator == InitAccumulator /\ [][NextAccumulator]_vars

(***************************************************************************)
(* The parser alone: one call of parse_frontmatter on a document.  The     *)
(* documents are a header of at most MaxLines lines between the two        *)
(* delimiter lines, and texts that open or close in other ways.            *)
(***************************************************************************)
MaxLines == 3

KeyFolded == <<"k", ":", " ", ">">>
KeyFoldedStrip == <<"k", ":", " ", ">", "-">>
KeyLiteral == <<"k", ":", " ", "|">>
KeyLiteralStrip == <<"k", ":", " ", "|", "-">>
KeyPlain == <<"n", ":", " ", "v">>
LineIndented == <<" ", " ", "a", " ", "b", " ">>
LineIndentedC == <<" ", "c">>
LineSpaces == <<" ", " ">>
LineFlush == <<"x", " ", "y">>
LineCapital == <<"K", ":", " ", "v">>
LineIndentedKey == <<" ", " ", "m", ":", " ", "w">>
LineEmpty == <<>>
HeaderLines ==
    {KeyFolded, KeyFoldedStrip, KeyLiteral, KeyLiteralStrip,
     KeyPlain, LineIndented, LineIndentedC, LineSpaces,
     LineFlush, LineCapital, LineIndentedKey, LineEmpty}

Delimiter == <<"-", "-", "-">>
Framed(header) ==
    Delimiter \o <<"\n">> \o Join(header, <<"\n">>) \o <<"\n">> \o Delimiter
    \o <<"\n", "b", "\n">>

OpenShort == <<"-", "-", "\n">>
OpenSpaced == <<" ", "-", "-", "-", "\n">>
OpenLate == <<"\n", "-", "-", "-", "\n">>
OpenTitle == <<"#", " ", "s", "\n">>
OpenBroken == <<"-", "-", " ", "-", "\n">>
OpenPlain == <<"-", "-", "-", "\n">>
OpenLong == <<"-", "-", "-", "-", "\n">>
OpenGlued == <<"-", "-", "-", "x", "\n">>
Openings ==
    {<<>>, OpenShort, OpenSpaced, OpenLate, OpenTitle, OpenBroken, OpenPlain,
     OpenLong, OpenGlued}
CloseBare == <<"\n", "-", "-", "-">>
CloseBody == <<"\n", "-", "-", "-", "\n", "b", "\n">>
CloseBlank == <<"\n", "-", "-", "-", "\n", "\n", "\n", "b">>
Closings == {<<>>, CloseBare, CloseBody, CloseBlank}
FewHeaders ==
    {<<>>, <<KeyPlain>>, <<KeyFolded, LineIndented>>, <<LineFlush, LineEmpty>>}

Documents ==
    {Framed(h) : h \in SeqsUpTo(HeaderLines, MaxLines)}
    \cup {o \o Join(h, <<"\n">>) \o c :
             o \in Openings, h \in FewHeaders, c \in Closings}

ParseFrontmatter ==
    /\ pc = "parse"
    /\ result' = parse_frontmatter(document)
    /\ pc' = "parsed"
    /\ UNCHANGED <<passed, failed, warned, failure_details, warning_details,
                   out, exc, document, tree, registry, skills, plugins, sr,
                   mp_data, i, exit_code>>

NextParser == ParseFrontmatter

\* Nothing recorded, no tree read; the document is the caller's.
InitParser ==
    /\ passed = 0
    /\ failed = 0
    /\ warned = 0
    /\ failure_details = <<>>
    /\ warning_details = <<>>
    /\ out = <<>>
    /\ exc = None
    /\ tree = <<>>
    /\ registry = NoFile
    /\ skills = <<>>
    /\ plugins = <<>>
    /\ sr = None
    /\ mp_data = Null
    /\ i = 0
    /\ pc = "parse"
    /\ exit_code = -1
    /\ document \in Documents
    /\ result = None

SpecParser == InitParser /\ [][NextParser]_vars

(***************************************************************************)
(* Discovery alone: at most MaxCalls calls of discover_skills and          *)
(* discover_plugins, in any order, on one tree; result is the list of the  *)
(* calls made with what each returned.                                     *)
(***************************************************************************)
MaxCalls == 3

DiscoverSkills ==
    /\ pc = "discover" /\ Len(result) < MaxCalls
    /\ skills' = discover_skills(tree)
    /\ result' = Append(result, [fn |-> "discover_skills", ret |-> skills'])
    /\ UNCHANGED <<passed, failed, warned, failure_details, warning_details,
                   out, exc, document, tree, registry, plugins, sr, mp_data,
                   i, pc, exit_code>>

DiscoverPlugins ==
    /\ pc = "discover" /\ Len(result) < MaxCalls
    /\ plugins' = discover_plugins(tree)
    /\ result' = Append(result, [fn |-> "discover_plugins", ret |-> plugins'])
    /\ UNCHANGED <<passed, failed, warned, failure_details, warning_details,
                   out, exc, document, tree, registry, skills, sr, mp_data,
                   i, pc, exit_code>>

NextDiscovery == DiscoverSkills \/ DiscoverPlugins

InitDiscovery ==
    /\ passed = 0
    /\ failed = 0
    /\ warned = 0
    /\ failure_details = <<>>
    /\ warning_details = <<>>
    /\ out = <<>>
    /\ exc = None
    /\ tree \in Trees
    /\ registry = NoFile
    /\ skills = <<>>
    /\ plugins = <<>>
    /\ sr = None
    /\ mp_data = Null
    /\ i = 0
    /\ pc = "discover"
    /\ exit_code = -1
    /\ document = <<>>
    /\ result = <<>>

SpecDiscovery == InitDiscovery /\ [][NextDiscovery]_vars


(***************************************************************************)
(* Reading the console: the section lines, the entries under each of them  *)
(* and how far Layer 2 has come.                                           *)
(***************************************************************************)
LayerTitles ==
    <<"Layer 1: Skills (skills-ref validate)",
      "Layer 2: Plugin metadata (plugin.json)",
      "Layer 3: Marketplace registry (marketplace.json)",
      "Layer 4: Cross-consistency",
      "Layer 5: Skill quality (skill-shaper best practices)">>

IsSection(l) == "section" \in DOMAIN l
IsEntry(l) == "status" \in DOMAIN l
IsResults(l) == "results" \in DOMAIN l

Sections == SelectSeq(out, IsSection)
Entered(k) == \E j \in 1..Len(out) : IsSection(out[j]) /\ out[j].section = LayerTitles[k]
SectionAt(k) ==
    CHOOSE j \in 1..Len(out) : IsSection(out[j]) /\ out[j].section = LayerTitles[k]
LayerEnd(k) ==
    LET later == {j \in (SectionAt(k) + 1)..Len(out) : ~IsEntry(out[j])}
    IN  IF later = {} THEN Len(out) + 1
        ELSE CHOOSE j \in later : \A m \in later : j <= m

\* The PASS, FAIL and WARN lines printed under the k-th section line.
LayerEntries(k) ==
    IF ~Entered(k) THEN <<>>
    ELSE SubSeq(out, SectionAt(k) + 1, LayerEnd(k) - 1)

Summarised == \E j \in 1..Len(out) : IsResults(out[j])
Crashed == exc # None

InLayer2 ==
    \/ pc = "layer2_for"
    \/ pc = "exited" /\ Crashed /\ Entered(2) /\ ~Entered(3)

\* The number of plugins whose Layer 2 iteration has run to its end.
Checked2 ==
    IF ~Entered(2) THEN 0
    ELSE IF InLayer2 THEN i - 1
    ELSE Len(plugins)

\* The Layer 2 entries of the plugin directory "name".
PluginEntries(name) ==
    SelectSeq(LayerEntries(2), LAMBDA l : l.label.v[1] = name)

ManifestOf(name) == tree[name].manifest
IsObject(file) == file.k = "json" /\ file.v.t = "obj"

IsPrefix(a, b) == Len(a) <= Len(b) /\ SubSeq(b, 1, Len(a)) = a

(***************************************************************************)
(* C1: in every run that reaches the report, the exit status is 0 exactly  *)
(* when the failed count is zero and 1 otherwise; warnings and passes have *)
(* no part in it.                                                          *)
(***************************************************************************)
C1_ExitStatus ==
    (pc = "exited" /\ ~Crashed) =>
        /\ Summarised
        /\ exit_code \in {0, 1}
        /\ exit_code = 0 <=> failed = 0

C1_WarningsOnly ==
    /\ pc = "exited" /\ ~Crashed
    /\ failed = 0 /\ warned > 0 /\ passed > 0
    /\ exit_code = 0

(***************************************************************************)
(* C2: no layer lets an error escape: whatever the files hold, no          *)
(* exception leaves a layer and the run goes on to the final report.       *)
(***************************************************************************)
C2_NoErrorEscapes ==
    /\ ~Crashed
    /\ pc = "exited" => Summarised

(***************************************************************************)
(* C3: the five layers are entered once each, in the order 1 to 5, and the *)
(* run ends with the summary printed after Layer 5, whatever the validator *)
(* and the registry are.                                                   *)
(***************************************************************************)
C3_FiveLayersThenSummary ==
    /\ Len(Sections) <= Len(LayerTitles)
    /\ \A k \in 1..Len(Sections) : Sections[k].section = LayerTitles[k]
    /\ pc = "exited" =>
           /\ Len(Sections) = Len(LayerTitles)
           /\ \E j \in 1..Len(out) :
                  /\ IsResults(out[j])
                  /\ \A m \in 1..Len(out) :
                         (IsSection(out[m]) \/ IsEntry(out[m])) => m < j

(***************************************************************************)
(* C4: the accumulator starts with three zero counts and two empty detail  *)
(* lists, and every record_pass, record_fail or record_warn raises exactly *)
(* one count by exactly one, lowers none, and leaves every stored detail   *)
(* in place and unchanged.                                                 *)
(***************************************************************************)
OneRecord ==
    /\ passed' \in {passed, passed + 1}
    /\ failed' \in {failed, failed + 1}
    /\ warned' \in {warned, warned + 1}
    /\ passed' + failed' + warned' = passed + failed + warned + 1
    /\ IsPrefix(failure_details, failure_details')
    /\ IsPrefix(warning_details, warning_details')

C4_AppendOnly ==
    /\ passed = 0 /\ failed = 0 /\ warned = 0
    /\ failure_details = <<>> /\ warning_details = <<>>
    /\ [][OneRecord]_vars

C4_TwoStored ==
    /\ passed = 0 /\ failed = 2 /\ warned = 1
    /\ Len(failure_details) = 2 /\ Len(warning_details) = 0

(***************************************************************************)
(* C5: when the validator is neither found nor installed, Layer 1 holds    *)
(* exactly one entry, the FAIL of the whole layer, and no entry for any    *)
(* skill, however many skills were discovered.                             *)
(***************************************************************************)
C5_ValidatorUnavailable ==
    (sr = None /\ pc \notin {"main", "layer1"}) =>
        /\ LayerEntries(1) = <<Line("FAIL", Fmt("skills-ref", <<>>))>>
        /\ failed >= 1
        /\ failure_details # <<>> /\ failure_details[1].label = Fmt("skills-ref", <<>>)

C5_TwoSkillsNoValidator ==
    /\ sr = None /\ pc = "exited" /\ ~Crashed
    /\ Len(skills) = 2

(***************************************************************************)
(* C6: over an empty plugins directory and a well-formed registry that     *)
(* lists zero entries, a full run in which the validator was found or      *)
(* installed records no failure and no warning and exits 0.                *)
(***************************************************************************)
ZeroEntries(reg) ==
    /\ IsObject(reg)
    /\ HasKey(reg.v, "plugins") /\ reg.v.v["plugins"] = List(<<>>)

WellFormed(reg) ==
    /\ IsObject(reg)
    /\ \A field \in {"name", "owner", "plugins", "metadata"} : HasKey(reg.v, field)
    /\ LET meta == reg.v.v["metadata"]
       IN  /\ meta.t = "obj"
           /\ HasKey(meta, "version") /\ meta.v["version"].t = "str"
           /\ SEMVER_RE(meta.v["version"].v)
           /\ HasKey(meta, "description") /\ Truthy(meta.v["description"])

C6_EmptyMarketplace ==
    (/\ pc = "exited"
     /\ tree = <<>>
     /\ ZeroEntries(registry) /\ WellFormed(registry)
     /\ sr # None)
    => /\ ~Crashed
       /\ failed = 0 /\ warned = 0
       /\ exit_code = 0

C6_EmptyMarketplaceRun ==
    /\ pc = "exited" /\ tree = <<>>
    /\ ZeroEntries(registry) /\ WellFormed(registry)
    /\ sr # None /\ passed > 0

\* C6 as the specification states it: whatever the validator, an empty
\* plugins directory and a registry listing zero entries give no failure,
\* no warning and exit status 0.
C6_AsStated ==
    (pc = "exited" /\ tree = <<>> /\ ZeroEntries(registry) /\ WellFormed(registry))
    => failed = 0 /\ warned = 0 /\ exit_code = 0

(***************************************************************************)
(* C7: a manifest that exists and is not parseable JSON gets exactly two   *)
(* Layer 2 entries, the PASS of its existence and the FAIL of the parse    *)
(* check, it never ends the run, and every manifest object beside it still *)
(* gets its checks.                                                        *)
(***************************************************************************)
CountOf(entries, templates) ==
    Len(SelectSeq(entries, LAMBDA l : l.label.f \in templates))

NameCheck == {"{name}: required field 'name'"}

C7_UnparseableManifest ==
    /\ \A j \in 1..Checked2 :
           ManifestOf(plugins[j]) = BadJson =>
               PluginEntries(plugins[j]) =
                   <<Line("PASS", PluginLabel(plugins[j], "{name}: file exists")),
                     Line("FAIL", PluginLabel(plugins[j], "{name}: valid JSON"))>>
    /\ (pc = "exited" /\ InLayer2) => ManifestOf(plugins[i]) # BadJson
    /\ Entered(3) =>
           \A k \in 1..Len(plugins) :
               IsObject(ManifestOf(plugins[k])) =>
                   CountOf(PluginEntries(plugins[k]), NameCheck) = 1

C7_GoodAfterUnparseable ==
    /\ Entered(3)
    /\ \E j, k \in 1..Len(plugins) :
           /\ j < k
           /\ ManifestOf(plugins[j]) = BadJson
           /\ ManifestOf(plugins[k]) = JsonFile(GoodManifest(plugins[k]))

(***************************************************************************)
(* C8: for every manifest that parses, each of the name, version,          *)
(* description and author checks gives its own outcome whatever the other  *)
(* fields hold, and a name that is neither kebab-case nor equal to the     *)
(* directory name gives two FAILs.                                         *)
(***************************************************************************)
VersionCheck == {"{name}: version present", "{name}: semver version"}
DescriptionCheck ==
    {"{name}: description present", "{name}: description length",
     "{name}: description length ({dlen} chars)"}
AuthorCheck == {"{name}: author present", "{name}: author.name present"}

\* The plugins whose Layer 2 iteration has begun.
Attempted2 == IF pc = "exited" /\ InLayer2 THEN i ELSE Checked2

C8_ChecksIndependent ==
    \A j \in 1..Attempted2 :
        LET name == plugins[j]
            e == PluginEntries(name)
        IN  ManifestOf(name).k = "json" =>
                /\ CountOf(e, NameCheck) = 1
                /\ CountOf(e, VersionCheck) = 1
                /\ CountOf(e, DescriptionCheck) = 1
                /\ CountOf(e, AuthorCheck) = 1

(***************************************************************************)
(* C9: the description check of a manifest records exactly one entry: FAIL *)
(* when the description is missing or empty, PASS when its length is       *)
(* between 50 and 200, both included, and WARN for every other length.     *)
(***************************************************************************)
DescriptionOutcome(name, data) ==
    IF ~HasKey(data, "description") \/ ~Truthy(data.v["description"])
    THEN Line("FAIL", PluginLabel(name, "{name}: description present"))
    ELSE LET L == Len(data.v["description"].v)
         IN  IF 50 <= L /\ L <= 200
             THEN Line("PASS", PluginLabel(name, "{name}: description length"))
             ELSE Line("WARN", Fmt("{name}: description length ({dlen} chars)",
                                   <<name, L>>))

C9_DescriptionLength ==
    \A j \in 1..Checked2 :
        LET name == plugins[j]
        IN  IsObject(ManifestOf(name)) =>
                SelectSeq(PluginEntries(name),
                          LAMBDA l : l.label.f \in DescriptionCheck)
                = <<DescriptionOutcome(name, ManifestOf(name).v)>>

C9_LongestPassing ==
    \E j \in 1..Checked2 :
        LET name == plugins[j]
        IN  /\ IsObject(ManifestOf(name))
            /\ HasKey(ManifestOf(name).v, "description")
            /\ ManifestOf(name).v.v["description"] = Desc(200)
            /\ \E m \in 1..Len(out) :
                   out[m] = Line("PASS", PluginLabel(name, "{name}: description length"))

(***************************************************************************)
(* C10: the author check records PASS exactly when the author is a         *)
(* non-empty string or an object with a non-empty name, and FAIL for every *)
(* other value.                                                            *)
(***************************************************************************)
AuthorAccepted(data) ==
    /\ HasKey(data, "author")
    /\ LET author == data.v["author"]
       IN  \/ author.t = "str" /\ author.v # <<>>
           \/ /\ author.t = "obj"
              /\ HasKey(author, "name") /\ Truthy(author.v["name"])

C10_AuthorShape ==
    \A j \in 1..Checked2 :
        LET name == plugins[j]
            e == SelectSeq(PluginEntries(name), LAMBDA l : l.label.f \in AuthorCheck)
        IN  IsObject(ManifestOf(name)) =>
                /\ Len(e) = 1
                /\ e[1].status = (IF AuthorAccepted(ManifestOf(name).v)
                                  THEN "PASS" ELSE "FAIL")

(***************************************************************************)
(* C11: for each component field of a parsed manifest, every path it       *)
(* declares - the single string, each string of a map, and each string of  *)
(* a nested map that starts with "./" or holds a "/" - gets exactly one    *)
(* Layer 2 entry of its own: FAIL without the "./" prefix, FAIL with "..", *)
(* FAIL when absent from the plugin directory, PASS otherwise.             *)
(***************************************************************************)
PathShape == "{name}: {comp_field} path '{p}'"
PathOnDisk == "{name}: {comp_field} path '{p}' exists"

StringsOf(d) ==
    LET vals == Values(d)
    IN  Flatten([j \in 1..Len(vals) |->
                    IF vals[j].t = "str" THEN <<vals[j].v>> ELSE <<>>])

LooksLikePath(p) == Contains(p, <<"/">>)

\* The paths a component value declares, nested strings taken as paths
\* only when they look like one.
Declared(comp) ==
    IF comp.t = "str" THEN <<comp.v>>
    ELSE IF comp.t = "obj"
    THEN StringsOf(comp) \o
         LET vals == Values(comp)
         IN  Flatten([j \in 1..Len(vals) |->
                         IF vals[j].t = "obj"
                         THEN SelectSeq(StringsOf(vals[j]), LooksLikePath)
                         ELSE <<>>])
    ELSE <<>>

\* The same, every nested string taken as a path.
DeclaredAll(comp) ==
    IF comp.t = "str" THEN <<comp.v>>
    ELSE IF comp.t = "obj"
    THEN StringsOf(comp) \o
         LET vals == Values(comp)
         IN  Flatten([j \in 1..Len(vals) |->
                         IF vals[j].t = "obj" THEN StringsOf(vals[j]) ELSE <<>>])
    ELSE <<>>

Times(q, x) == Cardinality({m \in 1..Len(q) : q[m] = x})

PathOutcome(name, dir, field, p) ==
    IF ~StartsWith(p, <<".", "/">>) \/ Contains(p, <<".", ".">>)
    THEN Line("FAIL", Fmt(PathShape, <<name, field, p>>))
    ELSE IF Resolved(p) \in dir.paths
    THEN Line("PASS", Fmt(PathOnDisk, <<name, field, p>>))
    ELSE Line("FAIL", Fmt(PathOnDisk, <<name, field, p>>))

PathEntries(name, field, p) ==
    SelectSeq(PluginEntries(name),
              LAMBDA l : /\ l.label.f \in {PathShape, PathOnDisk}
                         /\ l.label.v = <<name, field, p>>)

FieldNames == {COMPONENT_FIELDS[f] : f \in 1..Len(COMPONENT_FIELDS)}

Parsed(reg) == reg.k = "json"

\* The entries of the registry, when its "plugins" is a list.
RegEntries ==
    IF IsObject(registry) /\ HasKey(registry.v, "plugins")
       /\ registry.v.v["plugins"].t = "list"
    THEN registry.v.v["plugins"].v
    ELSE <<>>

Named(e, n) == e.t = "obj" /\ HasKey(e, "name") /\ e.v["name"] = Str(n)
Listed(n) == \E m \in 1..Len(RegEntries) : Named(RegEntries[m], n)

\* Layer 3 has returned; Layer 4 has returned.
Done3 == pc = "layer4" \/ Entered(4)
Done4 == pc \in {"layer5", "layer5_for", "report"} \/ Entered(5)

OrphanCheck == "{dname}: listed in marketplace"
OrphanEntries(n) ==
    SelectSeq(LayerEntries(3),
              LAMBDA l : l.label.f = OrphanCheck /\ l.label.v = <<n>>)

CrossChecks ==
    {"{name}: name matches plugin.json", "{name}: version matches plugin.json",
     "{name}: version comparison", "{label}: reachable"}
\* The Layer 4 entries about the plugin directory n and its skills.
CrossEntries(n) ==
    SelectSeq(LayerEntries(4),
              LAMBDA l : l.label.f \in CrossChecks /\ l.label.v[1] = n)

Fails(entries) == SelectSeq(entries, LAMBDA l : l.status = "FAIL")

(***************************************************************************)
(* C13: whenever the registry file parses and Layer 3 runs to its end,     *)
(* every plugin discovered on disk has exactly one orphan entry in Layer   *)
(* 3, PASS when its name is an entry name and FAIL when it is not,         *)
(* whatever the shape of the registry's plugins field.                     *)
(***************************************************************************)
C13_OrphanCheck ==
    (Done3 /\ Parsed(registry)) =>
        \A j \in 1..Len(plugins) :
            OrphanEntries(plugins[j]) =
                <<Line(IF Listed(plugins[j]) THEN "PASS" ELSE "FAIL",
                       PluginLabel(plugins[j], OrphanCheck))>>

(***************************************************************************)
(* C14: a plugin on disk that no entry of the registry names has exactly   *)
(* one FAIL in Layer 3 and exactly one FAIL in Layer 4, whether it owns    *)
(* no skill, one skill or several.                                         *)
(***************************************************************************)
C14_OneFailPerLayer ==
    (Done4 /\ IsObject(registry)) =>
        \A j \in 1..Len(plugins) :
            ~Listed(plugins[j]) =>
                /\ Len(Fails(OrphanEntries(plugins[j]))) = 1
                /\ Len(Fails(CrossEntries(plugins[j]))) = 1

(***************************************************************************)
(* C15: a registry that carries the same name in two entries has the       *)
(* duplicate flagged: at the least, Layer 3 or Layer 4 records a FAIL.     *)
(***************************************************************************)
Duplicated ==
    \E a, b \in 1..Len(RegEntries) :
        /\ a < b
        /\ RegEntries[a].t = "obj" /\ HasKey(RegEntries[a], "name")
        /\ RegEntries[b].t = "obj" /\ HasKey(RegEntries[b], "name")
        /\ RegEntries[a].v["name"] = RegEntries[b].v["name"]

C15_DuplicateFlagged ==
    (Done4 /\ Duplicated) =>
        Fails(LayerEntries(3)) \o Fails(LayerEntries(4)) # <<>>

(***************************************************************************)
(* C16: when the registry is missing or is not valid JSON, Layer 4 holds   *)
(* one FAIL and nothing else; when the registry parsed, Layer 4 holds no   *)
(* such FAIL and, run to its end, one reachability entry per skill.        *)
(***************************************************************************)
Skipped4 == Line("FAIL", Fmt("marketplace data", <<>>))

C16_SkipOnlyUnparsed ==
    Entered(4) =>
        /\ ~Parsed(registry) => LayerEntries(4) = <<Skipped4>>
        /\ Parsed(registry) =>
               /\ \A m \in 1..Len(LayerEntries(4)) : LayerEntries(4)[m] # Skipped4
               /\ Done4 =>
                      Len(SelectSeq(LayerEntries(4),
                                    LAMBDA l : l.label.f = "{label}: reachable"))
                      = Len(skills)

C16_SkippedWithPlugins ==
    /\ Entered(4) /\ registry = BadJson
    /\ Len(plugins) >= 1 /\ Len(skills) >= 1
    /\ LayerEntries(4) = <<Skipped4>>

(***************************************************************************)
(* C17: for every plugin on disk that the registry lists, Layer 4 holds    *)
(* exactly one version entry: PASS when the entry's and the manifest's     *)
(* versions are both present and equal, FAIL when both are present and     *)
(* differ, WARN when either is missing.  The entry of a plugin is the one  *)
(* of its name, the last one where several carry it.                       *)
(***************************************************************************)
EntryOf(n) ==
    RegEntries[CHOOSE m \in 1..Len(RegEntries) :
                   /\ Named(RegEntries[m], n)
                   /\ \A k \in (m + 1)..Len(RegEntries) : ~Named(RegEntries[k], n)]

\* What the manifest of n declares: nothing when it did not parse.
ManifestData(n) == IF IsObject(ManifestOf(n)) THEN ManifestOf(n).v ELSE EmptyObj

Present(d, key) == HasKey(d, key) /\ Truthy(d.v[key])

VersionMatch == "{name}: version matches plugin.json"
VersionCompare == "{name}: version comparison"
NameMatch == "{name}: name matches plugin.json"

EntriesAbout(n, templates) ==
    SelectSeq(LayerEntries(4),
              LAMBDA l : l.label.f \in templates /\ l.label.v = <<n>>)

VersionOutcome(n) ==
    IF Present(ManifestData(n), "version") /\ Present(EntryOf(n), "version")
    THEN IF ManifestData(n).v["version"] = EntryOf(n).v["version"]
         THEN Line("PASS", PluginLabel(n, VersionMatch))
         ELSE Line("FAIL", PluginLabel(n, VersionMatch))
    ELSE Line("WARN", PluginLabel(n, VersionCompare))

C17_VersionThreeWay ==
    Done4 =>
        \A j \in 1..Len(plugins) :
            Listed(plugins[j]) =>
                EntriesAbout(plugins[j], {VersionMatch, VersionCompare})
                = <<VersionOutcome(plugins[j])>>

C17_MissingVersionWarned ==
    /\ Done4
    /\ \E j \in 1..Len(plugins) :
           /\ Listed(plugins[j])
           /\ Present(ManifestData(plugins[j]), "version")
           /\ ~Present(EntryOf(plugins[j]), "version")
           /\ EntriesAbout(plugins[j], {VersionMatch, VersionCompare})
                  = <<Line("WARN", PluginLabel(plugins[j], VersionCompare))>>

(***************************************************************************)
(* C18: for a plugin whose manifest version is "1.0" and whose registry    *)
(* entry declares "1.0.0", Layer 2 holds the FAIL of the semver check and  *)
(* Layer 4 holds a WARN, and no FAIL, for the version comparison.          *)
(***************************************************************************)
C18_ScenarioC ==
    Done4 =>
        \A j \in 1..Len(plugins) :
            LET n == plugins[j]
            IN  (/\ Listed(n)
                 /\ Present(ManifestData(n), "name")
                 /\ ManifestData(n).v["name"] = Str(n)
                 /\ Present(ManifestData(n), "version")
                 /\ ManifestData(n).v["version"] = V10
                 /\ Present(EntryOf(n), "version")
                 /\ EntryOf(n).v["version"] = V100)
                => /\ Line("FAIL", PluginLabel(n, "{name}: semver version"))
                          \in {PluginEntries(n)[m] : m \in 1..Len(PluginEntries(n))}
                   /\ EntriesAbout(n, {VersionMatch, VersionCompare})
                          = <<Line("WARN", PluginLabel(n, VersionCompare))>>

(***************************************************************************)
(* C19: on the name and on the version, Layer 4 records a FAIL only when   *)
(* the registry entry and the manifest both give a value and the values    *)
(* differ, and a WARN when one of them gives none: a manifest without a    *)
(* name, or one that did not parse, has a WARN on the name comparison.     *)
(***************************************************************************)
AttributeChecks(attr) ==
    IF attr = "name" THEN {NameMatch} ELSE {VersionMatch, VersionCompare}

C19_FailOnlyOnDisagreement ==
    Done4 =>
        \A j \in 1..Len(plugins) :
            LET n == plugins[j]
            IN  Listed(n) =>
                    \A attr \in {"name", "version"} :
                        LET e == EntriesAbout(n, AttributeChecks(attr))
                            both == /\ Present(ManifestData(n), attr)
                                    /\ Present(EntryOf(n), attr)
                        IN  \A m \in 1..Len(e) :
                                /\ e[m].status = "FAIL" =>
                                       /\ both
                                       /\ ManifestData(n).v[attr] # EntryOf(n).v[attr]
                                /\ ~both => e[m].status = "WARN"

(***************************************************************************)
(* C20: when the registry entry of a plugin and the plugin's manifest      *)
(* carry the same name and the same version, Layer 4 holds no FAIL for     *)
(* the plugin: not on its name, not on its version, not on the             *)
(* reachability of its skills.                                             *)
(***************************************************************************)
SameValue(a, b, key) ==
    \/ ~HasKey(a, key) /\ ~HasKey(b, key)
    \/ HasKey(a, key) /\ HasKey(b, key) /\ a.v[key] = b.v[key]

RoundTrip(n) ==
    /\ Listed(n)
    /\ SameValue(EntryOf(n), ManifestData(n), "name")
    /\ SameValue(EntryOf(n), ManifestData(n), "version")

C20_RoundTrip ==
    Done4 =>
        \A j \in 1..Len(plugins) :
            RoundTrip(plugins[j]) => Fails(CrossEntries(plugins[j])) = <<>>

C20_RoundTripWithSkills ==
    /\ Done4
    /\ \E j \in 1..Len(plugins) :
           /\ RoundTrip(plugins[j])
           /\ \E m \in 1..Len(skills) : skills[m].plugin = plugins[j]
           /\ Len(CrossEntries(plugins[j])) >= 3

(***************************************************************************)
(* C21: whenever Layer 4 runs on a registry that parsed, it holds exactly  *)
(* one reachability entry for every discovered skill: PASS when the name   *)
(* of the skill's plugin is an entry name of the registry, FAIL when it is *)
(* not, whatever Layer 1 said about the skill and whether or not Layer 1   *)
(* ran.                                                                    *)
(***************************************************************************)
ReachableCheck == "{label}: reachable"
ReachEntries(s) ==
    SelectSeq(LayerEntries(4),
              LAMBDA l : l.label.f = ReachableCheck
                         /\ l.label.v = <<s.plugin, s.skill>>)

ReachOutcome(s) ==
    Line(IF Listed(s.plugin) THEN "PASS" ELSE "FAIL",
         Fmt(ReachableCheck, <<s.plugin, s.skill>>))

\* Every discovered skill has its one reachability entry.
Reachability ==
    \A m \in 1..Len(skills) : ReachEntries(skills[m]) = <<ReachOutcome(skills[m])>>

C21_OneReachabilityPerSkill == (Entered(4) /\ mp_data # Null) => Reachability

\* The same, on the runs whose Layer 4 returned.
ReachabilityWhenReturned == (Done4 /\ mp_data # Null) => Reachability

(***************************************************************************)
(* C22: no step of Layer 5 changes the failed count or the stored failure  *)
(* details; a skill whose description holds neither "when" nor "trigger"   *)
(* has a WARN on its trigger-context check, and a run whose Layers 1 to 4  *)
(* recorded no FAIL exits with status 0.                                   *)
(***************************************************************************)
InLayer5 == pc \in {"layer5", "layer5_for"}
Done5 == pc = "report" \/ Summarised

\* The description Layer 5 reads from the skill's document.
DescriptionKey == <<"d", "e", "s", "c", "r", "i", "p", "t", "i", "o", "n">>
DescriptionOf(s) ==
    LET fm == parse_frontmatter(tree[s.plugin].skills[s.skill].doc.v).fm
    IN  IF DescriptionKey \in DOMAIN fm THEN fm[DescriptionKey] ELSE <<>>

NoTriggerWord(desc) ==
    /\ ~Contains(LowerCase(desc), <<"w", "h", "e", "n">>)
    /\ ~Contains(LowerCase(desc), <<"t", "r", "i", "g", "g", "e", "r">>)

TriggerCheck == "{label}: description trigger context"
TriggerEntries(s) ==
    SelectSeq(LayerEntries(5),
              LAMBDA l : l.label.f = TriggerCheck /\ l.label.v = <<s.plugin, s.skill>>)

WarnOnly ==
    /\ Done5 =>
           \A m \in 1..Len(skills) :
               NoTriggerWord(DescriptionOf(skills[m])) =>
                   TriggerEntries(skills[m])
                   = <<Line("WARN", Fmt(TriggerCheck, <<skills[m].plugin, skills[m].skill>>))>>
    /\ (pc = "exited" /\ Summarised
        /\ \A k \in 1..4 : Fails(LayerEntries(k)) = <<>>) => exit_code = 0

C22_WarnOnly ==
    /\ []WarnOnly
    /\ [][InLayer5 => (failed' = failed /\ failure_details' = failure_details)]_vars

\* Scenario D: a described skill without trigger context, and nothing else
\* amiss.
C22_ScenarioD ==
    /\ pc = "exited" /\ Summarised
    /\ \E m \in 1..Len(skills) :
           /\ DescriptionOf(skills[m]) = DescTerse
           /\ TriggerEntries(skills[m])
              = <<Line("WARN", Fmt(TriggerCheck, <<skills[m].plugin, skills[m].skill>>))>>
    /\ failed = 0 /\ warned >= 1 /\ exit_code = 0

(***************************************************************************)
(* C23: for every document that does not begin with the three dashes of    *)
(* the opening delimiter, parse_frontmatter returns the empty field map    *)
(* and the document itself, unchanged, as the body, and raises nothing.    *)
(***************************************************************************)
Returned == pc = "parsed"
BeginsWithDelimiter(d) == Len(d) >= Len(Delimiter) /\ SubSeq(d, 1, Len(Delimiter)) = Delimiter

C23_NoDelimiterIdentity ==
    (Returned /\ ~BeginsWithDelimiter(document)) =>
        /\ result = [fm |-> <<>>, body |-> document]
        /\ exc = None

\* A document whose delimiter lines come after a blank first line.
C23_LateDelimiter ==
    /\ Returned
    /\ document = OpenLate \o KeyPlain \o CloseBody
    /\ result.fm = <<>> /\ result.body = document

(***************************************************************************)
(* Reading a document as the format describes it: the header is the lines  *)
(* between the first line, a delimiter line, and the next delimiter line.  *)
(***************************************************************************)
DocLines == Split(document, "\n")
Closers == {c \in 2..Len(DocLines) : DocLines[c] = Delimiter}
HasHeader == Len(DocLines) >= 2 /\ DocLines[1] = Delimiter /\ Closers # {}
Header == SubSeq(DocLines, 2, Min(Closers) - 1)

IsKeyLine(l) == KeyLen(l) > 0
KeyOf(l) == SubSeq(l, 1, KeyLen(l))
ValueOf(l) == Strip(SubSeq(l, KeyLen(l) + 2, Len(l)))
IsBlockKeyLine(l) == IsKeyLine(l) /\ ValueOf(l) \in BlockIndicators
IsIndented(l) == l # <<>> /\ l[1] = " " /\ Strip(l) # <<>>

\* The number of indented lines that follow line a of the header.
IndentedAfter(a) ==
    LET stop == {j \in (a + 1)..(Len(Header) + 1) :
                    j = Len(Header) + 1 \/ ~IsIndented(Header[j])}
    IN  Min(stop) - a - 1

\* Line a is the last that declares its key.
LastOfKey(a) ==
    \A j \in (a + 1)..Len(Header) :
        IsKeyLine(Header[j]) => KeyOf(Header[j]) # KeyOf(Header[a])

Trimmed(a, n) == [j \in 1..n |-> Strip(Header[a + j])]

(***************************************************************************)
(* C24: a field declared with a block indicator, folded or literal, and    *)
(* followed by N indented lines up to the next key line or the end of the  *)
(* header has as its value the trimmed content of the N lines, joined by   *)
(* single spaces in their order.                                           *)
(***************************************************************************)
C24_BlockScalarJoined ==
    (Returned /\ HasHeader) =>
        \A a \in 1..Len(Header) :
            LET n == IndentedAfter(a)
            IN  (/\ IsBlockKeyLine(Header[a])
                 /\ n >= 1
                 /\ a + n = Len(Header) \/ IsKeyLine(Header[a + n + 1])
                 /\ LastOfKey(a))
                => /\ KeyOf(Header[a]) \in DOMAIN result.fm
                   /\ result.fm[KeyOf(Header[a])] = Join(Trimmed(a, n), <<" ">>)

C24_LiteralTwoLines ==
    /\ Returned
    /\ document = Framed(<<KeyLiteralStrip, LineIndented, LineIndentedC>>)
    /\ result.fm = (<<"k">> :> <<"a", " ", "b", " ", "c">>)

(***************************************************************************)
(* C25: on an unchanged tree every call of discover_plugins returns the    *)
(* same list and every call of discover_skills returns the same list; the  *)
(* plugins are in ascending order of directory name and hold exactly the   *)
(* directories with a manifest, the skills are in ascending order of       *)
(* plugin name then skill name and hold exactly the skill directories      *)
(* with a document; no call changes the tree or the accumulator.           *)
(***************************************************************************)
Ascending(q, less(_, _)) == \A a, b \in 1..Len(q) : a < b => less(q[a], q[b])

ByPluginThenSkill(a, b) ==
    \/ StrLess(a.plugin, b.plugin)
    \/ a.plugin = b.plugin /\ StrLess(a.skill, b.skill)

Elements(q) == {q[a] : a \in 1..Len(q)}

OrderStable ==
    \A a \in 1..Len(result) :
        /\ \A b \in 1..Len(result) :
               result[a].fn = result[b].fn => result[a].ret = result[b].ret
        /\ result[a].fn = "discover_plugins" =>
               /\ Ascending(result[a].ret, StrLess)
               /\ Elements(result[a].ret)
                  = {d \in DOMAIN tree : tree[d].manifest # NoFile}
        /\ result[a].fn = "discover_skills" =>
               /\ Ascending(result[a].ret, ByPluginThenSkill)
               /\ Elements(result[a].ret)
                  = UNION {{[plugin |-> d, skill |-> k] :
                               k \in {x \in DOMAIN tree[d].skills :
                                         tree[d].skills[x].doc # NoFile}} :
                             d \in DOMAIN tree}

C25_DiscoveryStable ==
    /\ []OrderStable
    /\ [][tree' = tree /\ Acc' = Acc]_vars

\* Skills discovered twice, in two plugins, with plugins discovered between.
C25_CalledTwice ==
    /\ Len(result) = 3
    /\ result[1].fn = "discover_skills" /\ result[3].fn = "discover_skills"
    /\ result[2].fn = "discover_plugins"
    /\ Len(result[3].ret) = 3 /\ Len(result[2].ret) = 2
    /\ result[3].ret[1].plugin # result[3].ret[3].plugin

(***************************************************************************)
(* C26: every line of the header that is a key line at column 0 declares   *)
(* a field of the result, and the value of a field declared with a block   *)
(* indicator is made of the indented lines between its key line and the    *)
(* next key line, and of nothing else: a line that is not indented is no   *)
(* part of it.                                                             *)
(***************************************************************************)
\* The index of the first key line after line a, or one past the header.
NextKey(a) ==
    Min({j \in (a + 1)..(Len(Header) + 1) :
            j = Len(Header) + 1 \/ IsKeyLine(Header[j])})

\* The indented lines between line a and the next key line, trimmed.
BlockLines(a) ==
    LET between == SubSeq(Header, a + 1, NextKey(a) - 1)
        kept == SelectSeq(between, IsIndented)
    IN  [j \in 1..Len(kept) |-> Strip(kept[j])]

C26_BlockValueIndentedOnly ==
    (Returned /\ HasHeader) =>
        \A a \in 1..Len(Header) :
            IsKeyLine(Header[a]) =>
                /\ KeyOf(Header[a]) \in DOMAIN result.fm
                /\ (IsBlockKeyLine(Header[a]) /\ LastOfKey(a)) =>
                       result.fm[KeyOf(Header[a])] = Join(BlockLines(a), <<" ">>)

\* The first half alone: a key line always declares a field.
KeyLineStartsField ==
    (Returned /\ HasHeader) =>
        \A a \in 1..Len(Header) :
            IsKeyLine(Header[a]) => KeyOf(Header[a]) \in DOMAIN result.fm

(***************************************************************************)
(* C27: for a plugin on disk that the registry lists, Layer 4 holds one    *)
(* name entry, PASS exactly when the manifest's name is the directory      *)
(* name; when the manifest's name is not empty, Layer 2 holds one "name    *)
(* matches dir" entry and its status is the status of Layer 4's entry.     *)
(***************************************************************************)
NameDir == "{name}: name matches dir"
NameDirEntries(n) ==
    SelectSeq(PluginEntries(n), LAMBDA l : l.label.f = NameDir)

NamedAfterDir(n) ==
    HasKey(ManifestData(n), "name") /\ ManifestData(n).v["name"] = Str(n)

C27_NameByDirectory ==
    Entered(4) =>
        \A j \in 1..Len(plugins) :
            LET n == plugins[j]
                status == IF NamedAfterDir(n) THEN "PASS" ELSE "FAIL"
            IN  Listed(n) =>
                    /\ EntriesAbout(n, {NameMatch})
                       = <<Line(status, PluginLabel(n, NameMatch))>>
                    /\ Present(ManifestData(n), "name") =>
                           NameDirEntries(n) = <<Line(status, PluginLabel(n, NameDir))>>

\* A listed plugin whose manifest carries another name fails both checks.
C27_BothFail ==
    /\ Entered(4)
    /\ \E j \in 1..Len(plugins) :
           /\ Listed(plugins[j])
           /\ Present(ManifestData(plugins[j]), "name")
           /\ ~NamedAfterDir(plugins[j])
           /\ EntriesAbout(plugins[j], {NameMatch})
              = <<Line("FAIL", PluginLabel(plugins[j], NameMatch))>>
           /\ NameDirEntries(plugins[j])
              = <<Line("FAIL", PluginLabel(plugins[j], NameDir))>>

(***************************************************************************)
(* C28: a skill directory that holds its document under a plugin           *)
(* directory without a manifest is a discovered skill though its owner is  *)
(* no discovered plugin; wherever a layer runs its loop over the skills    *)
(* the skill has its entries: one in Layer 1, one reachability entry in    *)
(* Layer 4, PASS exactly when the owner's name is an entry name of the     *)
(* registry, and the quality entries of Layer 5.                           *)
(***************************************************************************)
\* The skill directories with a document whose owner has no manifest.
Ownerless ==
    UNION {{[plugin |-> d, skill |-> k] :
               k \in {x \in DOMAIN tree[d].skills : tree[d].skills[x].doc # NoFile}} :
             d \in {x \in DOMAIN tree : tree[x].manifest = NoFile}}

SkillEntries(k, s) ==
    SelectSeq(LayerEntries(k),
              LAMBDA l : Len(l.label.v) >= 2 /\ SubSeq(l.label.v, 1, 2) = <<s.plugin, s.skill>>)

C28_SkillWithoutPlugin ==
    pc # "main" =>
        \A s \in Ownerless :
            /\ s \in Elements(skills)
            /\ s.plugin \notin Elements(plugins)
            /\ (Entered(2) /\ sr # None) => Len(SkillEntries(1, s)) = 1
            /\ (Done4 /\ mp_data # Null) => ReachEntries(s) = <<ReachOutcome(s)>>
            /\ Entered(4) =>
                   (Listed(s.plugin) <=>
                       \E m \in 1..Len(ReachEntries(s)) :
                           ReachEntries(s)[m].status = "PASS")
            /\ Done5 => Len(SkillEntries(5, s)) >= 4

\* An ownerless skill that the registry reaches, checked by Layers 1, 4, 5.
C28_ReachableWithoutPlugin ==
    /\ Summarised /\ plugins = <<>>
    /\ \E s \in Ownerless :
           /\ Len(SkillEntries(1, s)) = 1
           /\ ReachEntries(s) = <<Line("PASS", Fmt(ReachableCheck, <<s.plugin, s.skill>>))>>
           /\ Len(SkillEntries(5, s)) >= 4

(***************************************************************************)
(* C29: a registry entry whose name is the name of no discovered plugin    *)
(* has no name or version comparison in Layer 4; when its name is          *)
(* kebab-case and its source is an existing directory, whichever it is,    *)
(* Layer 3 holds a PASS for its name and a PASS for its source and the     *)
(* run holds no FAIL and no WARN about it.                                 *)
(***************************************************************************)
EntryChecks ==
    {"{ename}: name present", "{ename}: name kebab-case",
     "{ename}: source present", "{ename}: source path exists"}

\* The Layer 3 entries about the registry entries named ename.
EntryLines(ename) ==
    SelectSeq(LayerEntries(3),
              LAMBDA l : l.label.f \in EntryChecks /\ l.label.v = <<ename>>)

SoundEntry(e) ==
    /\ e.t = "obj"
    /\ HasKey(e, "name") /\ e.v["name"].t = "str" /\ KEBAB_RE(e.v["name"].v)
    /\ HasKey(e, "source") /\ e.v["source"].t = "str"
    /\ IsDir(tree, e.v["source"].v)

\* The entry is of a name no discovered plugin has, as is every entry of
\* that name.
Foreign(e) ==
    /\ SoundEntry(e)
    /\ e.v["name"].v \notin Elements(plugins)
    /\ \A m \in 1..Len(RegEntries) :
           (RegEntries[m].t = "obj" /\ HasKey(RegEntries[m], "name")
            /\ RegEntries[m].v["name"] = e.v["name"]) => SoundEntry(RegEntries[m])

EntriesNamed(ename) ==
    Cardinality({m \in 1..Len(RegEntries) :
                    /\ RegEntries[m].t = "obj" /\ HasKey(RegEntries[m], "name")
                    /\ RegEntries[m].v["name"] = ename})

C29_ForeignEntry ==
    Entered(3) =>
        \A m \in 1..Len(RegEntries) :
            LET e == RegEntries[m]
            IN  Foreign(e) =>
                    /\ \A j \in 1..Len(EntryLines(e.v["name"])) :
                           EntryLines(e.v["name"])[j].status = "PASS"
                    /\ Done3 => Len(EntryLines(e.v["name"]))
                                = 2 * EntriesNamed(e.v["name"])
                    /\ EntriesAbout(e.v["name"].v,
                                    {NameMatch, VersionMatch, VersionCompare}) = <<>>

\* An entry for a name without a plugin whose source is the scripts
\* directory, in a run that has plugins.
C29_ForeignElsewhere ==
    /\ Done4 /\ plugins # <<>>
    /\ \E m \in 1..Len(RegEntries) :
           /\ Foreign(RegEntries[m])
           /\ RegEntries[m].v["source"].v = <<"s", "c", "r", "i", "p", "t", "s">>
           /\ Len(EntryLines(RegEntries[m].v["name"])) = 2
           /\ \A k \in 1..4 : Fails(LayerEntries(k)) = <<>>

(***************************************************************************)
(* C30: at every point of a run the stored failure details are at most     *)
(* the failed count and the stored warning details at most the warned      *)
(* count; a detail is stored exactly for the FAILs and WARNs recorded with *)
(* a text, so the only FAILs without a stored detail are those of Layer 1  *)
(* for a skill the validator failed without output; such a FAIL counts in  *)
(* failed and in the exit status and adds nothing to the printed list.     *)
(***************************************************************************)
\* What the validator printed about skill s, as Layer 1 hands it on.
ValidatorText(s) ==
    LET res == tree[s.plugin].skills[s.skill].verdict
    IN  Strip(res.stdout \o res.stderr)

\* The Layer 1 FAILs of skills the validator failed without a word.
MuteFails ==
    Cardinality({m \in 1..Len(LayerEntries(1)) :
        LET l == LayerEntries(1)[m]
        IN  /\ l.status = "FAIL"
            /\ l.label.f = "{plugin_name}/{skill_name}"
            /\ ValidatorText([plugin |-> l.label.v[1], skill |-> l.label.v[2]]) = <<>>})

Printed == SelectSeq(out, LAMBDA l : "printed" \in DOMAIN l)
Headings == {out[m].heading : m \in {j \in 1..Len(out) : "heading" \in DOMAIN out[j]}}

C30_DetailsWithinCounts ==
    /\ Len(failure_details) <= failed
    /\ Len(warning_details) <= warned
    /\ Len(failure_details) = failed - MuteFails
    /\ Len(warning_details) = warned
    /\ (pc = "exited" /\ Summarised) =>
           /\ Printed = [m \in 1..Len(failure_details \o warning_details) |->
                            [printed |-> (failure_details \o warning_details)[m]]]
           /\ "Failures:" \in Headings <=> failure_details # <<>>
           /\ failed > 0 => exit_code = 1

\* One FAIL, of a silent validator: status 1 and no Failures list.
C30_SilentFailure ==
    /\ pc = "exited" /\ Summarised
    /\ failed = 1 /\ MuteFails = 1
    /\ failure_details = <<>>
    /\ "Failures:" \notin Headings
    /\ exit_code = 1

====
